---- MODULE Spec2Model ----
(***************************************************************************)
(* Galcon 9001BT BLE irrigation controller: the device driver              *)
(* (galcon_device.py) and the poll/command coordinator (coordinator.py).   *)
(*                                                                         *)
(* Each action is one scheduling step of the asyncio event loop: the code  *)
(* a task runs between two suspension points.  A driver call that returns  *)
(* resumes its coordinator caller without yielding, so the state in which  *)
(* a driver call has returned (pc = "returned") and the state in which a   *)
(* coordinator operation has finished (pc = "finished") are committed: no  *)
(* other task runs until the caller has taken the result.                  *)
(***************************************************************************)
EXTENDS Integers, Sequences, FiniteSets, TLC

VARIABLES
    drv,                    \* per task: the driver call it is running
    lockHolder,             \* GalconDevice._lock: the task that holds it
    lockWaiters,            \* GalconDevice._lock: FIFO of waiting tasks
    task,                   \* per task: the coordinator operation it runs
    ret,                    \* the coordinator operation that has just returned
    consecutive_failures,
    last_successful_poll,
    last_known_status,
    polling_enabled,
    update_interval,
    last_irrigation_start,
    last_irrigation_duration_min,
    current_irrigation_start,
    current_irrigation_duration,
    operation_state,
    clock,                  \* wall clock read by dt_util.now / utcnow
    fail_streak,            \* observer: failed polls since the counter was last zeroed
    status_bytes,           \* _parse_status: the buffer it is given
    decoded,                \* _parse_status: the status it returned, once it has
    command_args,           \* open_valve: the (hours, minutes, seconds) it is given
    command_payload,        \* open_valve / close_valve: the payload built, once it is
    state_listeners,        \* GalconCoordinator._state_listeners
    notified                \* observer: the listener calls the latest step made,
                            \* each with what the listener saw

driverVars == <<drv, lockHolder, lockWaiters>>
codecVars == <<status_bytes, decoded, command_args, command_payload>>
coordData == <<consecutive_failures, last_successful_poll, last_known_status,
               polling_enabled, update_interval, last_irrigation_start,
               last_irrigation_duration_min, current_irrigation_start,
               current_irrigation_duration, operation_state, fail_streak,
               state_listeners>>
coordVars == <<coordData, notified>>
vars == <<drv, lockHolder, lockWaiters, task, ret,
          consecutive_failures, last_successful_poll, last_known_status,
          polling_enabled, update_interval, last_irrigation_start,
          last_irrigation_duration_min, current_irrigation_start,
          current_irrigation_duration, operation_state, clock, fail_streak,
          status_bytes, decoded, command_args, command_payload,
          state_listeners, notified>>

----------------------------------------------------------------------------
(* Program constants (const.py) *)

MAX_RETRIES == 3
COMMAND_VERIFY_ATTEMPTS == 3
MAX_CONSECUTIVE_FAILURES == 5
CMD_CLOSE_VALVE == <<1, 0, 0, 0, 0, 0, 0>>
CMD_OPEN_VALVE == <<0, 1, 0, 0, 0, 0, 0>>
STATUS_VALVE_OPEN_MASK == 1
STATUS_MANUAL_OPEN_MASK == 1

(* Bounds of the model *)

MaxFailures == 6            \* polls start only while consecutive_failures < MaxFailures
MaxClock == 1               \* the clock ticks up to MaxClock
MaxListeners == 2           \* at most MaxListeners listener registrations
MaxBufLen == 6              \* status buffers given to _parse_status have at most MaxBufLen bytes

(* Inputs *)

Tasks == {"poll", "cmd1", "cmd2"}
Callers == {"cmd1", "cmd2"}         \* tasks that call the driver directly (SpecDriver)
Commanders == {"cmd1"}              \* tasks that issue coordinator commands (Spec)
NoTask == "nobody"

\* the callbacks given to register_state_listener: the status sensor's
Listeners == {"status_sensor"}

\* buffers the status characteristic may return: a short (malformed) one whose
\* first byte has bit 0 set, an open one with a battery byte, a closed one of
\* exactly five bytes
ReadBuffers == { <<1, 0>>, <<1, 1, 0, 20, 0, 90>>, <<0, 0, 0, 0, 0>> }

\* values of hours, minutes and seconds given to open_valve when its payload
\* is examined: negative, zero, in range, the byte limits and beyond them
ArgValues == {-1, 0, 1, 20, 255, 256, 257, 300}

\* (hours, minutes, seconds) passed to open_valve
OpenArgs == { <<0, 0, 0>>, <<1, 300, 7>> }

\* outcome of one GATT call: completes, raises BleakError / TimeoutError /
\* OSError, or raises any other exception
IOOutcomes == {"ok", "transient", "other"}

----------------------------------------------------------------------------
(* Optional values: None is the empty sequence, a value is a singleton *)

None == <<>>
Some(x) == <<x>>
NoBattery == -1

----------------------------------------------------------------------------
(* Status codec: GalconDevice._parse_status *)

GalconStatus(vo, mo, h, m, s, raw, bat) ==
    [valve_open |-> vo, manual_open |-> mo, hours_remaining |-> h,
     minutes_remaining |-> m, seconds_remaining |-> s, raw |-> raw,
     battery_level |-> bat]

BitAnd1WholeByte(b) == b

\* data[i] & 0x01 for a byte
BitAnd1(b) == b % 2

\* a decoder that reads the valve bit of a short buffer
ParseStatusShortKeepsValveBit(data) ==
    IF Len(data) < 5
    THEN GalconStatus(Len(data) > 0 /\ BitAnd1(data[1]) # 0, FALSE, 0, 0, 0, data,
                      NoBattery)
    ELSE GalconStatus(BitAnd1(data[1]) # 0, BitAnd1(data[2]) # 0,
                      data[3], data[4], data[5], data,
                      IF Len(data) > 5 THEN data[6] ELSE NoBattery)

\* _parse_status
ParseStatus(data) ==
    IF Len(data) < 5
    THEN GalconStatus(FALSE, FALSE, 0, 0, 0, data, NoBattery)
    ELSE GalconStatus(BitAnd1(data[1]) # 0,
                      IF Len(data) > 1 THEN BitAnd1(data[2]) # 0 ELSE FALSE,
                      IF Len(data) > 2 THEN data[3] ELSE 0,
                      IF Len(data) > 3 THEN data[4] ELSE 0,
                      IF Len(data) > 4 THEN data[5] ELSE 0,
                      data,
                      IF Len(data) > 5 THEN data[6] ELSE NoBattery)

\* bytes a status buffer is made of: both values of bit 0 with the other bits
\* clear (0, 1) and set (254, 255), and the 2 and 5 of the documented examples
Bytes == {0, 1, 2, 5, 254, 255}

\* the buffers _parse_status is applied to: every sequence of at most
\* MaxBufLen bytes
StatusBuffers == UNION { [1..n -> Bytes] : n \in 0..MaxBufLen }

----------------------------------------------------------------------------
(* Driver calls: GalconDevice.get_status / open_valve / close_valve *)

\* what a driver call, or the callback inside _execute, ends with
Result(kind, status) == [kind |-> kind, status |-> status]
NoResult == Result("none", None)
RetStatus(st) == Result("status", Some(st))         \* return <GalconStatus>
RetFalse == Result("false", None)                   \* return False (sent, unconfirmed)
RaiseTransient == Result("transient", None)         \* BleakError / TimeoutError / OSError
RaiseOther == Result("other", None)                 \* any other exception
RaiseConnectionError == Result("ConnectionError", None)

IdleCall ==
    [op |-> "none", pc |-> "idle", attempt |-> 0, vattempt |-> 0,
     payload |-> <<>>, expect_open |-> FALSE,
     \* the attempt holds a client whose disconnect() has not been called yet;
     \* client.is_connected
     client |-> FALSE, connected |-> FALSE,
     pending |-> NoResult, result |-> NoResult,
     \* observers of the call: connect attempts, callback invocations, control
     \* writes over all attempts, backoff sleeps, the GATT calls made on the
     \* current connection, attempts whose connect raised a transient error,
     \* whether any connect / GATT / disconnect call of this call has failed,
     \* the status of the latest pre-command read, the status of the latest
     \* readback of the verify loop
     connects |-> 0, op_calls |-> 0, ctl_writes |-> 0, sleeps |-> <<>>,
     gatt |-> <<>>, connect_errors |-> 0, io_failed |-> FALSE, pre_status |-> None,
     post_status |-> None,
     \* a wake write has completed on the current connection
     woken |-> FALSE]

\* a driver call that has returned does not keep other tasks from running
NoneReturningToFramework == ret.op = "none"

\* no task is at a committed point: a driver call that has returned to its
\* caller, or a coordinator operation that has returned to the framework
NoneReturning ==
    /\ ret.op = "none"
    /\ \A u \in Tasks : drv[u].pc # "returned"

LockIsFreeIgnoringHolder == lockWaiters = <<>>

\* `async with self._lock` entry: asyncio.Lock.acquire takes a free lock
\* without suspending, otherwise the caller queues behind the holder
LockIsFree == lockHolder = NoTask /\ lockWaiters = <<>>

OpenPayloadUnmasked(hours, minutes, seconds) ==
    IF hours = 0 /\ minutes = 0 /\ seconds = 0
    THEN CMD_OPEN_VALVE
    ELSE <<0, 3, 0, hours, minutes, seconds, 0>>

\* open_valve's payload
OpenPayload(hours, minutes, seconds) ==
    IF hours = 0 /\ minutes = 0 /\ seconds = 0
    THEN CMD_OPEN_VALVE
    ELSE <<0, 3, 0, hours % 256, minutes % 256, seconds % 256, 0>>

\* entry of a driver call by task t, up to its first suspension
EnterCall(t, op, payload, expect_open) ==
    /\ drv' = [drv EXCEPT ![t] =
                  [IdleCall EXCEPT !.op = op, !.payload = payload,
                                   !.expect_open = expect_open,
                                   !.pc = IF LockIsFree THEN "connect" ELSE "waiting"]]
    /\ lockHolder' = IF LockIsFree THEN t ELSE lockHolder
    /\ lockWaiters' = IF LockIsFree THEN lockWaiters ELSE Append(lockWaiters, t)

\* a lock whose release wakes no waiter
DriverStepWakesNobody(t, c) ==
    /\ drv' = [drv EXCEPT ![t] = c]
    /\ lockHolder' = IF c.pc = "returned" THEN NoTask ELSE lockHolder
    /\ UNCHANGED lockWaiters

\* one step of the call of task t that leaves its record as c; a call that
\* has returned leaves `async with self._lock`, which wakes the first waiter
DriverStep(t, c) ==
    IF c.pc = "returned"
    THEN /\ drv' = IF lockWaiters # <<>>
                   THEN [drv EXCEPT ![t] = c, ![Head(lockWaiters)].pc = "connect"]
                   ELSE [drv EXCEPT ![t] = c]
         /\ lockHolder' = IF lockWaiters # <<>> THEN Head(lockWaiters) ELSE NoTask
         /\ lockWaiters' = IF lockWaiters # <<>> THEN Tail(lockWaiters) ELSE <<>>
    ELSE /\ drv' = [drv EXCEPT ![t] = c]
         /\ UNCHANGED <<lockHolder, lockWaiters>>

\* _execute returns or raises r out of the retry loop
Returned(c, r) == [c EXCEPT !.pc = "returned", !.result = r, !.pending = NoResult]

HasNextAttemptShort(c) == c.attempt < MAX_RETRIES - 1

\* the retry loop has another attempt after this one
HasNextAttempt(c) == c.attempt < MAX_RETRIES

OnTransientAlwaysSleeps(c) == [c EXCEPT !.pc = "backoff", !.pending = NoResult]

\* _execute's except clause for a transient error of the current attempt:
\* back off before the next attempt, or fall out of the loop and raise
OnTransient(c) ==
    IF HasNextAttempt(c)
    THEN [c EXCEPT !.pc = "backoff", !.pending = NoResult]
    ELSE Returned(c, RaiseConnectionError)

LeaveReleasesOnlyOnReturn(c, r) ==
    CASE r.kind \in {"status", "false"} -> [c EXCEPT !.pc = "disconnect", !.pending = r]
      [] r.kind = "transient" -> OnTransient(c)
      [] OTHER -> Returned(c, r)

\* the callback raised or returned r: the finally clause disconnects first
Leave(c, r) == [c EXCEPT !.pc = "disconnect", !.pending = r]

\* a GATT call (to the wake, status or control characteristic) recorded on
\* the current connection
Gatt(c, what) == [c EXCEPT !.gatt = Append(@, what)]

RECURSIVE CountOf(_, _)
CountOf(log, what) ==
    IF log = <<>> THEN 0
    ELSE (IF Head(log) = what THEN 1 ELSE 0) + CountOf(Tail(log), what)

\* the callback's error for a failed GATT call
RaiseOf(outcome) == IF outcome = "transient" THEN RaiseTransient ELSE RaiseOther

\* an I/O call of the current call has failed
Failed(c) == [c EXCEPT !.io_failed = TRUE]

----------------------------------------------------------------------------
(* GalconDevice._execute: one action per suspension point *)

\* Top of the retry loop: establish_connection(...) when a BLEDevice is cached,
\* BleakClient(...).connect() otherwise; both either raise or hand back a
\* client, which may report is_connected = False.
Connect(t) ==
    /\ NoneReturning
    /\ drv[t].pc = "connect"
    /\ lockHolder = t
    /\ LET c == [drv[t] EXCEPT !.attempt = @ + 1, !.connects = @ + 1,
                               !.gatt = <<>>, !.pre_status = None,
                               !.post_status = None, !.woken = FALSE]
       IN \E o \in {"live", "dead", "transient", "other"} :
            DriverStep(t,
              CASE o = "live" ->
                     [c EXCEPT !.client = TRUE, !.connected = TRUE,
                               !.op_calls = @ + 1, !.pc = "wake"]
                [] o = "dead" ->
                     Leave(Failed([c EXCEPT !.client = TRUE]), RaiseTransient)
                [] o = "transient" ->
                     OnTransient(Failed([c EXCEPT !.connect_errors = @ + 1]))
                [] o = "other" -> Returned(Failed(c), RaiseOther))
    /\ UNCHANGED <<task, ret, coordVars, clock, codecVars>>

\* wake_up at the start of the callback: write the wake characteristic, settle
WakeUp(t) ==
    /\ NoneReturning
    /\ drv[t].pc = "wake"
    /\ LET c == Gatt(drv[t], "wake")
       IN \E o \in IOOutcomes :
            DriverStep(t,
              IF o = "ok"
              THEN [c EXCEPT !.woken = TRUE,
                             !.pc = IF c.op = "get_status" THEN "read" ELSE "pre_read"]
              ELSE Leave(Failed(c), RaiseOf(o)))
    /\ UNCHANGED <<task, ret, coordVars, clock, codecVars>>

\* get_status: _read_status_raw after the wake
ReadStatus(t) ==
    /\ NoneReturning
    /\ drv[t].pc = "read"
    /\ LET c == Gatt(drv[t], "read")
       IN \E o \in IOOutcomes, data \in ReadBuffers :
            DriverStep(t,
              IF o = "ok"
              THEN Leave(c, RetStatus(ParseStatus(data)))
              ELSE Leave(Failed(c), RaiseOf(o)))
    /\ UNCHANGED <<task, ret, coordVars, clock, codecVars>>

\* the finally clause: client.disconnect(), then what the try block ended
\* with; an error raised by disconnect replaces it
Disconnect(t) ==
    /\ NoneReturning
    /\ drv[t].pc = "disconnect"
    /\ LET c == drv[t]
           d == [c EXCEPT !.client = FALSE, !.connected = FALSE]
       IN \E o \in IOOutcomes :
            DriverStep(t,
              CASE o = "transient" -> OnTransient(Failed(d))
                [] o = "other" -> Returned(Failed(d), RaiseOther)
                [] o = "ok" /\ c.pending.kind = "transient" -> OnTransient(d)
                [] o = "ok" /\ c.pending.kind # "transient" -> Returned(d, c.pending))
    /\ UNCHANGED <<task, ret, coordVars, clock, codecVars>>

\* asyncio.sleep(2.0 * attempt) in the except clause, then the next attempt
Backoff(t) ==
    /\ NoneReturning
    /\ drv[t].pc = "backoff"
    /\ DriverStep(t, [drv[t] EXCEPT !.sleeps = Append(@, 2 * drv[t].attempt),
                                    !.pc = "connect"])
    /\ UNCHANGED <<task, ret, coordVars, clock, codecVars>>

----------------------------------------------------------------------------
(* GalconDevice._verified_command, the callback of open_valve / close_valve *)

\* pre-command read; a device already in the wanted state gets no command
PreRead(t) ==
    /\ NoneReturning
    /\ drv[t].pc = "pre_read"
    /\ LET c == Gatt(drv[t], "read")
       IN \E o \in IOOutcomes, data \in ReadBuffers :
            DriverStep(t,
              IF o = "ok"
              THEN LET pre == ParseStatus(data)
                       c1 == [c EXCEPT !.pre_status = Some(pre)]
                   IN IF pre.valve_open = c.expect_open
                      THEN Leave(c1, RetStatus(pre))
                      ELSE [c1 EXCEPT !.pc = "ctl_write", !.vattempt = 1]
              ELSE Leave(Failed(c), RaiseOf(o)))
    /\ UNCHANGED <<task, ret, coordVars, clock, codecVars>>

\* a control write whose transient failure is swallowed like the re-wake's
ControlWriteBestEffort(t) ==
    /\ NoneReturning
    /\ drv[t].pc = "ctl_write"
    /\ LET c == [Gatt(drv[t], "control") EXCEPT !.ctl_writes = @ + 1]
       IN \E o \in IOOutcomes :
            DriverStep(t,
              CASE o = "ok" -> [c EXCEPT !.pc = "rewake"]
                [] o = "transient" -> [Failed(c) EXCEPT !.pc = "rewake"]
                [] o = "other" -> Leave(Failed(c), RaiseOther))
    /\ UNCHANGED <<task, ret, coordVars, clock, codecVars>>

\* write the payload to the control characteristic, wait POST_COMMAND_DELAY
ControlWrite(t) ==
    /\ NoneReturning
    /\ drv[t].pc = "ctl_write"
    /\ LET c == [Gatt(drv[t], "control") EXCEPT !.ctl_writes = @ + 1]
       IN \E o \in IOOutcomes :
            DriverStep(t,
              IF o = "ok"
              THEN [c EXCEPT !.pc = "rewake"]
              ELSE Leave(Failed(c), RaiseOf(o)))
    /\ UNCHANGED <<task, ret, coordVars, clock, codecVars>>

ReWakeSkipped(t) ==
    /\ NoneReturning
    /\ drv[t].pc = "rewake"
    /\ DriverStep(t, [drv[t] EXCEPT !.pc = "vread"])
    /\ UNCHANGED <<task, ret, coordVars, clock, codecVars>>

ReWakeNotSwallowed(t) ==
    /\ NoneReturning
    /\ drv[t].pc = "rewake"
    /\ LET c == Gatt(drv[t], "wake")
       IN \E o \in IOOutcomes :
            DriverStep(t,
              IF o = "ok"
              THEN [c EXCEPT !.woken = TRUE, !.pc = "vread"]
              ELSE Leave(Failed(c), RaiseOf(o)))
    /\ UNCHANGED <<task, ret, coordVars, clock, codecVars>>

\* re-wake before the readback; a transient failure is swallowed
ReWake(t) ==
    /\ NoneReturning
    /\ drv[t].pc = "rewake"
    /\ LET c == Gatt(drv[t], "wake")
       IN \E o \in IOOutcomes :
            DriverStep(t,
              CASE o = "ok" -> [c EXCEPT !.woken = TRUE, !.pc = "vread"]
                [] o = "transient" -> [Failed(c) EXCEPT !.pc = "vread"]
                [] o = "other" -> Leave(Failed(c), RaiseOther))
    /\ UNCHANGED <<task, ret, coordVars, clock, codecVars>>

VerifyReadAcceptsAnyRead(t) ==
    /\ NoneReturning
    /\ drv[t].pc = "vread"
    /\ LET c == Gatt(drv[t], "read")
       IN \E o \in IOOutcomes, data \in ReadBuffers :
            DriverStep(t,
              CASE o = "ok" ->
                     LET post == ParseStatus(data)
                     IN Leave([c EXCEPT !.post_status = Some(post)], RetStatus(post))
                [] o = "transient" -> [Failed(c) EXCEPT !.pc = "vsleep"]
                [] o = "other" -> Leave(Failed(c), RaiseOther))
    /\ UNCHANGED <<task, ret, coordVars, clock, codecVars>>

\* read back and compare; a transient failure falls through to the sleep
VerifyRead(t) ==
    /\ NoneReturning
    /\ drv[t].pc = "vread"
    /\ LET c == Gatt(drv[t], "read")
       IN \E o \in IOOutcomes, data \in ReadBuffers :
            DriverStep(t,
              CASE o = "ok" ->
                     LET post == ParseStatus(data)
                         c1 == [c EXCEPT !.post_status = Some(post)]
                     IN IF post.valve_open = c.expect_open
                        THEN Leave(c1, RetStatus(post))
                        ELSE [c1 EXCEPT !.pc = "vsleep"]
                [] o = "transient" -> [Failed(c) EXCEPT !.pc = "vsleep"]
                [] o = "other" -> Leave(Failed(c), RaiseOther))
    /\ UNCHANGED <<task, ret, coordVars, clock, codecVars>>

HasNextVerifyOffByOne(c) == c.vattempt <= COMMAND_VERIFY_ATTEMPTS

\* the verify loop has another iteration after this one
HasNextVerify(c) == c.vattempt < COMMAND_VERIFY_ATTEMPTS

\* asyncio.sleep(1.0) at the bottom of the verify loop, then the next
\* iteration, or `return False` once the loop is exhausted
VerifySleep(t) ==
    /\ NoneReturning
    /\ drv[t].pc = "vsleep"
    /\ DriverStep(t,
         IF HasNextVerify(drv[t])
         THEN [drv[t] EXCEPT !.vattempt = @ + 1, !.pc = "ctl_write"]
         ELSE Leave(drv[t], RetFalse))
    /\ UNCHANGED <<task, ret, coordVars, clock, codecVars>>

----------------------------------------------------------------------------
(* The driver's public operations, called directly *)

get_status(t) ==
    /\ NoneReturning
    /\ drv[t].pc = "idle" /\ task[t].pc = "idle"
    /\ EnterCall(t, "get_status", <<>>, FALSE)
    /\ UNCHANGED <<task, ret, coordVars, clock, codecVars>>

open_valve(t, hours, minutes, seconds) ==
    /\ NoneReturning
    /\ drv[t].pc = "idle" /\ task[t].pc = "idle"
    /\ EnterCall(t, "open_valve", OpenPayload(hours, minutes, seconds), TRUE)
    /\ UNCHANGED <<task, ret, coordVars, clock, codecVars>>

close_valve(t) ==
    /\ NoneReturning
    /\ drv[t].pc = "idle" /\ task[t].pc = "idle"
    /\ EnterCall(t, "close_valve", CMD_CLOSE_VALVE, FALSE)
    /\ UNCHANGED <<task, ret, coordVars, clock, codecVars>>

\* the direct caller takes what the call returned or raised
CallerResumes(t) ==
    /\ drv[t].pc = "returned" /\ task[t].pc = "idle"
    /\ drv' = [drv EXCEPT ![t] = IdleCall]
    /\ UNCHANGED <<lockHolder, lockWaiters, task, ret, coordVars, clock, codecVars>>

IdleTask == [pc |-> "idle", op |-> "none", args |-> <<>>]

\* what a coordinator operation hands back: the value returned or the
\* exception raised, the branch taken, the status published to the observers
Ret(op, how, outcome, published) ==
    [op |-> op, how |-> how, outcome |-> outcome, published |-> published]
NoRet == Ret("none", "none", NoResult, None)

----------------------------------------------------------------------------
(* A driver call as the coordinator sees it: once the call holds the lock it *)
(* runs to its end and returns or raises one of DriverResults, the results   *)
(* the step-by-step driver above can end with (ReturnedIsDriverResult).      *)

ReadableStatuses == { ParseStatus(data) : data \in ReadBuffers }

DriverResults(op, expect_open) ==
    IF op = "get_status"
    THEN { RetStatus(st) : st \in ReadableStatuses }
            \cup {RaiseConnectionError, RaiseOther}
    ELSE { RetStatus(st) : st \in { x \in ReadableStatuses : x.valve_open = expect_open } }
            \cup {RetFalse, RaiseConnectionError, RaiseOther}

DriverCompletes(t) ==
    /\ NoneReturning
    /\ drv[t].pc = "connect"
    /\ lockHolder = t
    /\ task[t].pc = "awaiting"
    /\ \E r \in DriverResults(drv[t].op, drv[t].expect_open) :
         DriverStep(t, Returned(drv[t], r))
    /\ notified' = <<>>
    /\ UNCHANGED <<task, ret, coordData, clock, codecVars>>

----------------------------------------------------------------------------
(* GalconCoordinator *)

\* the calls `for listener in self._state_listeners: listener()` makes after
\* the phase became state, each with the cached status and in-flight start
\* the listener can read at that moment
Notified(state, status, start) ==
    [i \in 1..Len(state_listeners) |->
        [listener |-> state_listeners[i], position |-> i, operation_state |-> state,
         last_known_status |-> status, current_irrigation_start |-> start]]

\* a phase assignment that calls the listeners only when the phase changes
SetOperationStateOnChange(state, status, start) ==
    /\ operation_state' = state
    /\ notified' = IF state # operation_state
                   THEN Notified(state, status, start) ELSE <<>>

\* _set_operation_state called while the cached status is status and the
\* in-flight start is start
SetOperationStateSeeing(state, status, start) ==
    /\ operation_state' = state
    /\ notified' = Notified(state, status, start)

SetOperationStateStale(state) == notified' = <<>> /\ UNCHANGED operation_state

\* _set_operation_state called before the step changes the cached status or
\* the in-flight record
SetOperationState(state) ==
    SetOperationStateSeeing(state, last_known_status, current_irrigation_start)

\* two _set_operation_state calls in a row: CONNECTING, then OPENING / CLOSING
SetOperationStateTwice(first, second) ==
    /\ operation_state' = second
    /\ notified' = Notified(first, last_known_status, current_irrigation_start)
                     \o Notified(second, last_known_status, current_irrigation_start)

\* register_state_listener
register_state_listener(listener) ==
    /\ NoneReturning
    /\ Len(state_listeners) < MaxListeners
    /\ state_listeners' = Append(state_listeners, listener)
    /\ notified' = <<>>
    /\ UNCHANGED <<driverVars, task, ret, clock, codecVars,
                   consecutive_failures, last_successful_poll, last_known_status,
                   polling_enabled, update_interval, last_irrigation_start,
                   last_irrigation_duration_min, current_irrigation_start,
                   current_irrigation_duration, operation_state, fail_streak>>

reachableInclusive == consecutive_failures <= MAX_CONSECUTIVE_FAILURES

\* the reachable property
reachable == consecutive_failures < MAX_CONSECUTIVE_FAILURES

\* a set_polling that leaves the phase alone when it disables polling
SetPollingKeepsPhase(enabled, status, start) ==
    /\ polling_enabled' = enabled
    /\ update_interval' = IF enabled THEN "base" ELSE "24h"
    /\ consecutive_failures' = IF enabled THEN 0 ELSE consecutive_failures
    /\ fail_streak' = IF enabled THEN 0 ELSE fail_streak
    /\ notified' = <<>>
    /\ UNCHANGED operation_state

\* the body of set_polling, called while the cached status is status and the
\* in-flight start is start
SetPollingSeeing(enabled, status, start) ==
    /\ polling_enabled' = enabled
    /\ IF enabled
       THEN /\ consecutive_failures' = 0
            /\ fail_streak' = 0
            /\ update_interval' = "base"
            /\ notified' = <<>>
            /\ UNCHANGED operation_state
       ELSE /\ update_interval' = "24h"
            /\ SetOperationStateSeeing("Idle", status, start)
            /\ UNCHANGED <<consecutive_failures, fail_streak>>

\* the body of set_polling
SetPolling(enabled) ==
    SetPollingSeeing(enabled, last_known_status, current_irrigation_start)

\* the operator's toggle (switch.py async_turn_on / async_turn_off)
set_polling(enabled) ==
    /\ NoneReturning
    /\ SetPolling(enabled)
    /\ ret' = Ret("set_polling", IF enabled THEN "on" ELSE "off", NoResult, None)
    /\ UNCHANGED <<driverVars, task, clock, state_listeners,
                   last_successful_poll, last_known_status,
                   last_irrigation_start, last_irrigation_duration_min,
                   current_irrigation_start, current_irrigation_duration, codecVars>>

\* the "closed, no data" status of a disabled poll
SyntheticClosed == GalconStatus(FALSE, FALSE, 0, 0, 0, <<>>, NoBattery)

\* raw and battery_level of the cached status, carried into a synthesized one
CarriedRaw == IF last_known_status # None THEN last_known_status[1].raw ELSE <<>>
CarriedBatteryDefaulted ==
    IF last_known_status # None /\ last_known_status[1].battery_level # NoBattery
    THEN last_known_status[1].battery_level
    ELSE 0

CarriedBattery ==
    IF last_known_status # None THEN last_known_status[1].battery_level ELSE NoBattery

UpdateDataDisabledNoCache ==
    /\ NoneReturning
    /\ task["poll"].pc = "idle"
    /\ ~polling_enabled
    /\ ret' = Ret("poll", "disabled",
                  RetStatus(IF last_known_status # None
                            THEN last_known_status[1] ELSE SyntheticClosed),
                  None)
    /\ UNCHANGED <<driverVars, task, clock, coordVars, codecVars>>

\* _async_update_data with polling disabled: no driver call
UpdateDataDisabled ==
    /\ NoneReturning
    /\ task["poll"].pc = "idle"
    /\ ~polling_enabled
    /\ IF last_known_status # None
       THEN /\ ret' = Ret("poll", "disabled", RetStatus(last_known_status[1]), None)
            /\ UNCHANGED last_known_status
       ELSE /\ last_known_status' = Some(SyntheticClosed)
            /\ ret' = Ret("poll", "disabled", RetStatus(SyntheticClosed), None)
    /\ UNCHANGED <<driverVars, task, clock, state_listeners,
                   consecutive_failures, fail_streak,
                   last_successful_poll, polling_enabled, update_interval,
                   last_irrigation_start, last_irrigation_duration_min,
                   current_irrigation_start, current_irrigation_duration,
                   operation_state, codecVars>>
    /\ notified' = <<>>

\* _async_update_data with polling enabled, up to `await device.get_status()`
UpdateDataStart ==
    /\ NoneReturning
    /\ task["poll"].pc = "idle"
    /\ polling_enabled
    /\ consecutive_failures < MaxFailures
    /\ SetOperationState("Scanning")
    /\ EnterCall("poll", "get_status", <<>>, FALSE)
    /\ task' = [task EXCEPT !["poll"] = [pc |-> "awaiting", op |-> "poll", args |-> <<>>]]
    /\ UNCHANGED <<ret, clock, state_listeners,
                   consecutive_failures, fail_streak, last_successful_poll,
                   last_known_status, polling_enabled, update_interval,
                   last_irrigation_start, last_irrigation_duration_min,
                   current_irrigation_start, current_irrigation_duration, codecVars>>

PollSucceededWithoutTimestamp(status) ==
    /\ consecutive_failures' = 0
    /\ fail_streak' = 0
    /\ UNCHANGED last_successful_poll
    /\ last_known_status' = Some(status)
    /\ SetOperationStateSeeing("Idle", Some(status), current_irrigation_start)
    /\ ret' = Ret("poll", "success", RetStatus(status), None)

\* the successful branch of the poll: lines 110-123
PollSucceeded(status) ==
    /\ consecutive_failures' = 0
    /\ fail_streak' = 0
    /\ last_successful_poll' = Some(clock)
    /\ last_known_status' = Some(status)
    /\ SetOperationStateSeeing("Idle", Some(status), current_irrigation_start)
    /\ ret' = Ret("poll", "success", RetStatus(status), None)

PollFailedAlwaysRaises ==
    /\ consecutive_failures' = consecutive_failures + 1
    /\ fail_streak' = fail_streak + 1
    /\ SetOperationState("Idle")
    /\ ret' = Ret("poll", "failure", Result("UpdateFailed", None), None)
    /\ UNCHANGED <<last_successful_poll, last_known_status>>

\* a failed poll that drops the cached status
PollFailedClearsCache ==
    /\ consecutive_failures' = consecutive_failures + 1
    /\ fail_streak' = fail_streak + 1
    /\ SetOperationState("Idle")
    /\ ret' = Ret("poll", "failure", Result("UpdateFailed", None), None)
    /\ last_known_status' = None
    /\ UNCHANGED last_successful_poll

\* the except branch of the poll: lines 124-138
PollFailed ==
    /\ consecutive_failures' = consecutive_failures + 1
    /\ fail_streak' = fail_streak + 1
    /\ SetOperationState("Idle")
    /\ ret' = Ret("poll", "failure",
                  IF last_known_status # None
                  THEN RetStatus(last_known_status[1])
                  ELSE Result("UpdateFailed", None),
                  None)
    /\ UNCHANGED <<last_successful_poll, last_known_status>>

\* _async_update_data resumed by the return of get_status
UpdateDataResume ==
    /\ drv["poll"].pc = "returned"
    /\ task["poll"].pc = "awaiting"
    /\ IF drv["poll"].result.kind = "status"
       THEN PollSucceeded(drv["poll"].result.status[1])
       ELSE PollFailed
    /\ drv' = [drv EXCEPT !["poll"] = IdleCall]
    /\ task' = [task EXCEPT !["poll"] = IdleTask]
    /\ UNCHANGED <<lockHolder, lockWaiters, clock, state_listeners,
                   polling_enabled, update_interval,
                   last_irrigation_start, last_irrigation_duration_min,
                   current_irrigation_start, current_irrigation_duration, codecVars>>

\* _record_irrigation_start
RecordIrrigationStart(duration_minutes) ==
    /\ current_irrigation_start' = Some(clock)
    /\ current_irrigation_duration' = duration_minutes

RecordIrrigationEndKeepsCurrent ==
    IF current_irrigation_start # None
    THEN /\ last_irrigation_start' = current_irrigation_start
         /\ last_irrigation_duration_min' = Some(current_irrigation_duration)
         /\ UNCHANGED <<current_irrigation_start, current_irrigation_duration>>
    ELSE UNCHANGED <<last_irrigation_start, last_irrigation_duration_min,
                     current_irrigation_start, current_irrigation_duration>>

\* a finalization that does not look whether a session is in flight
RecordIrrigationEndUnguarded ==
    /\ last_irrigation_start' = current_irrigation_start
    /\ last_irrigation_duration_min' = Some(current_irrigation_duration)
    /\ current_irrigation_start' = None
    /\ UNCHANGED current_irrigation_duration

\* _record_irrigation_end
RecordIrrigationEnd ==
    IF current_irrigation_start # None
    THEN /\ last_irrigation_start' = current_irrigation_start
         /\ last_irrigation_duration_min' = Some(current_irrigation_duration)
         /\ current_irrigation_start' = None
         /\ UNCHANGED current_irrigation_duration
    ELSE UNCHANGED <<last_irrigation_start, last_irrigation_duration_min,
                     current_irrigation_start, current_irrigation_duration>>

\* async_open_valve up to `await device.open_valve(...)`
async_open_valve(t, hours, minutes, seconds) ==
    /\ NoneReturning
    /\ task[t].pc = "idle" /\ drv[t].pc = "idle"
    /\ SetOperationStateTwice("Connecting", "Opening")
    /\ EnterCall(t, "open_valve", OpenPayload(hours, minutes, seconds), TRUE)
    /\ task' = [task EXCEPT ![t] = [pc |-> "awaiting", op |-> "open",
                                    args |-> <<hours, minutes, seconds>>]]
    /\ UNCHANGED <<ret, clock, state_listeners,
                   consecutive_failures, fail_streak, last_successful_poll,
                   last_known_status, polling_enabled, update_interval,
                   last_irrigation_start, last_irrigation_duration_min,
                   current_irrigation_start, current_irrigation_duration, codecVars>>

OpenedStatusAlwaysSynthesized(result, hours, minutes, seconds) ==
    GalconStatus(TRUE, TRUE, hours, minutes, seconds, CarriedRaw, CarriedBattery)

\* the status async_open_valve caches for what the driver returned
OpenedStatus(result, hours, minutes, seconds) ==
    IF result.kind = "status"
    THEN result.status[1]
    ELSE GalconStatus(TRUE, TRUE, hours, minutes, seconds, CarriedRaw, CarriedBattery)

\* a duration that drops the seconds
DurationMinutesRoundedDown(hours, minutes, seconds) ==
    hours * 60 + minutes

\* minutes recorded for an irrigation of hours:minutes:seconds
DurationMinutes(hours, minutes, seconds) ==
    hours * 60 + minutes + (IF seconds # 0 THEN 1 ELSE 0)

\* an open_valve that updates the cache and the record before the phase
OpenValveResumeRecordsFirst(t) ==
    /\ drv[t].pc = "returned"
    /\ task[t].pc = "awaiting" /\ task[t].op = "open"
    /\ LET r == drv[t].result
           a == task[t].args
       IN IF r.kind \in {"status", "false"}
          THEN /\ last_known_status' = Some(OpenedStatus(r, a[1], a[2], a[3]))
               /\ RecordIrrigationStart(DurationMinutes(a[1], a[2], a[3]))
               /\ SetOperationStateSeeing("Confirmed", last_known_status',
                                          current_irrigation_start')
               /\ ret' = Ret("open", "done", NoResult, last_known_status')
          ELSE /\ SetOperationState("Error")
               /\ ret' = Ret("open", "raised", r, None)
               /\ UNCHANGED <<last_known_status, current_irrigation_start,
                              current_irrigation_duration>>
    /\ drv' = [drv EXCEPT ![t] = IdleCall]
    /\ task' = [task EXCEPT ![t] = IdleTask]
    /\ UNCHANGED <<lockHolder, lockWaiters, clock, state_listeners,
                   consecutive_failures, fail_streak,
                   last_successful_poll, polling_enabled, update_interval,
                   last_irrigation_start, last_irrigation_duration_min, codecVars>>

\* an open_valve whose confirmation counts as having reached the device
OpenValveResumeResetsFailures(t) ==
    /\ drv[t].pc = "returned"
    /\ task[t].pc = "awaiting" /\ task[t].op = "open"
    /\ LET r == drv[t].result
           a == task[t].args
       IN IF r.kind \in {"status", "false"}
          THEN /\ SetOperationState("Confirmed")
               /\ last_known_status' = Some(OpenedStatus(r, a[1], a[2], a[3]))
               /\ RecordIrrigationStart(DurationMinutes(a[1], a[2], a[3]))
               /\ ret' = Ret("open", "done", NoResult, last_known_status')
          ELSE /\ SetOperationState("Error")
               /\ ret' = Ret("open", "raised", r, None)
               /\ UNCHANGED <<last_known_status, current_irrigation_start,
                              current_irrigation_duration>>
    /\ drv' = [drv EXCEPT ![t] = IdleCall]
    /\ task' = [task EXCEPT ![t] = IdleTask]
    /\ consecutive_failures' = IF drv[t].result.kind = "status"
                               THEN 0 ELSE consecutive_failures
    /\ UNCHANGED <<lockHolder, lockWaiters, clock, state_listeners,
                   fail_streak,
                   last_successful_poll, polling_enabled, update_interval,
                   last_irrigation_start, last_irrigation_duration_min, codecVars>>

\* async_open_valve resumed by the return of the driver's open_valve
OpenValveResume(t) ==
    /\ drv[t].pc = "returned"
    /\ task[t].pc = "awaiting" /\ task[t].op = "open"
    /\ LET r == drv[t].result
           a == task[t].args
       IN IF r.kind \in {"status", "false"}
          THEN /\ SetOperationState("Confirmed")
               /\ last_known_status' = Some(OpenedStatus(r, a[1], a[2], a[3]))
               /\ RecordIrrigationStart(DurationMinutes(a[1], a[2], a[3]))
               /\ ret' = Ret("open", "done", NoResult, last_known_status')
          ELSE /\ SetOperationState("Error")
               /\ ret' = Ret("open", "raised", r, None)
               /\ UNCHANGED <<last_known_status, current_irrigation_start,
                              current_irrigation_duration>>
    /\ drv' = [drv EXCEPT ![t] = IdleCall]
    /\ task' = [task EXCEPT ![t] = IdleTask]
    /\ UNCHANGED <<lockHolder, lockWaiters, clock, state_listeners,
                   consecutive_failures, fail_streak,
                   last_successful_poll, polling_enabled, update_interval,
                   last_irrigation_start, last_irrigation_duration_min, codecVars>>

\* async_close_valve up to `await device.close_valve()`
async_close_valve(t) ==
    /\ NoneReturning
    /\ task[t].pc = "idle" /\ drv[t].pc = "idle"
    /\ SetOperationStateTwice("Connecting", "Closing")
    /\ EnterCall(t, "close_valve", CMD_CLOSE_VALVE, FALSE)
    /\ task' = [task EXCEPT ![t] = [pc |-> "awaiting", op |-> "close", args |-> <<>>]]
    /\ UNCHANGED <<ret, clock, state_listeners,
                   consecutive_failures, fail_streak, last_successful_poll,
                   last_known_status, polling_enabled, update_interval,
                   last_irrigation_start, last_irrigation_duration_min,
                   current_irrigation_start, current_irrigation_duration, codecVars>>

ClosedStatusWithoutCarryOver == GalconStatus(FALSE, FALSE, 0, 0, 0, <<>>, NoBattery)

\* the status async_close_valve and async_irrigation_ended synthesize
ClosedStatus == GalconStatus(FALSE, FALSE, 0, 0, 0, CarriedRaw, CarriedBattery)

CloseValveResumeFinalizesFirst(t) ==
    /\ drv[t].pc = "returned"
    /\ task[t].pc = "awaiting" /\ task[t].op = "close"
    /\ RecordIrrigationEnd
    /\ LET r == drv[t].result
       IN IF r.kind \in {"status", "false"}
          THEN /\ SetOperationState("Confirmed")
               /\ last_known_status' =
                     Some(IF r.kind = "status" THEN r.status[1] ELSE ClosedStatus)
               /\ ret' = Ret("close", "done", NoResult, last_known_status')
          ELSE /\ SetOperationState("Error")
               /\ ret' = Ret("close", "raised", r, None)
               /\ UNCHANGED last_known_status
    /\ drv' = [drv EXCEPT ![t] = IdleCall]
    /\ task' = [task EXCEPT ![t] = IdleTask]
    /\ UNCHANGED <<lockHolder, lockWaiters, clock, state_listeners,
                   consecutive_failures, fail_streak,
                   last_successful_poll, polling_enabled, update_interval, codecVars>>

\* async_close_valve resumed by the return of the driver's close_valve
CloseValveResume(t) ==
    /\ drv[t].pc = "returned"
    /\ task[t].pc = "awaiting" /\ task[t].op = "close"
    /\ LET r == drv[t].result
       IN IF r.kind \in {"status", "false"}
          THEN /\ SetOperationState("Confirmed")
               /\ RecordIrrigationEnd
               /\ last_known_status' =
                     Some(IF r.kind = "status" THEN r.status[1] ELSE ClosedStatus)
               /\ ret' = Ret("close", "done", NoResult, last_known_status')
          ELSE /\ SetOperationState("Error")
               /\ ret' = Ret("close", "raised", r, None)
               /\ UNCHANGED <<last_known_status, last_irrigation_start,
                              last_irrigation_duration_min, current_irrigation_start,
                              current_irrigation_duration>>
    /\ drv' = [drv EXCEPT ![t] = IdleCall]
    /\ task' = [task EXCEPT ![t] = IdleTask]
    /\ UNCHANGED <<lockHolder, lockWaiters, clock, state_listeners,
                   consecutive_failures, fail_streak,
                   last_successful_poll, polling_enabled, update_interval, codecVars>>

IrrigationEndedEnablesPolling ==
    /\ NoneReturning
    /\ RecordIrrigationEnd
    /\ last_known_status' = Some(ClosedStatus)
    /\ SetPolling(TRUE)
    /\ ret' = Ret("irrigation_ended",
                  IF current_irrigation_start # None THEN "session" ELSE "no_session",
                  NoResult, last_known_status')
    /\ UNCHANGED <<driverVars, task, clock, state_listeners,
                   last_successful_poll, codecVars>>

\* async_irrigation_ended: the countdown sensor's notification
async_irrigation_ended ==
    /\ NoneReturning
    /\ RecordIrrigationEnd
    /\ last_known_status' = Some(ClosedStatus)
    /\ SetPollingSeeing(FALSE, Some(ClosedStatus), None)
    /\ ret' = Ret("irrigation_ended",
                  IF current_irrigation_start # None THEN "session" ELSE "no_session",
                  NoResult, last_known_status')
    /\ UNCHANGED <<driverVars, task, clock, state_listeners,
                   last_successful_poll, codecVars>>

\* the operation that has just returned hands control back to the event loop
Return ==
    /\ ret.op # "none"
    /\ ret' = NoRet
    /\ notified' = <<>>
    /\ UNCHANGED <<driverVars, task, coordData, clock, codecVars>>

\* time passes
Tick ==
    /\ NoneReturning
    /\ clock < MaxClock
    /\ clock' = clock + 1
    /\ notified' = <<>>
    /\ UNCHANGED <<driverVars, task, ret, coordData, codecVars>>

----------------------------------------------------------------------------
(* Specifications *)

DriverInit ==
    /\ drv = [t \in Tasks |-> IdleCall]
    /\ lockHolder = NoTask
    /\ lockWaiters = <<>>

CoordInit ==
    /\ task = [t \in Tasks |-> IdleTask]
    /\ ret = NoRet
    /\ consecutive_failures = 0
    /\ last_successful_poll = None
    /\ last_known_status = None
    /\ polling_enabled = FALSE
    /\ update_interval = "base"
    /\ last_irrigation_start = None
    /\ last_irrigation_duration_min = None
    /\ current_irrigation_start = None
    /\ current_irrigation_duration = 0
    /\ operation_state = "Idle"
    /\ clock = 0
    /\ fail_streak = 0
    /\ state_listeners = <<>>
    /\ notified = <<>>

CodecInit ==
    /\ status_bytes = <<>>
    /\ decoded = None
    /\ command_args = <<0, 0, 0>>
    /\ command_payload = None

Init == DriverInit /\ CoordInit /\ CodecInit

DriverInternal(t) ==
    \/ Connect(t)
    \/ WakeUp(t)
    \/ ReadStatus(t)
    \/ PreRead(t)
    \/ ControlWrite(t)
    \/ ReWake(t)
    \/ VerifyRead(t)
    \/ VerifySleep(t)
    \/ Disconnect(t)
    \/ Backoff(t)

NextDriver ==
    \E t \in Callers :
        \/ get_status(t)
        \/ \E a \in OpenArgs : open_valve(t, a[1], a[2], a[3])
        \/ close_valve(t)
        \/ DriverInternal(t)
        \/ CallerResumes(t)

SpecDriver == Init /\ [][NextDriver]_vars

\* the driver when every I/O step and timed wait of a call returns or raises,
\* and a caller whose call has returned runs on
SpecDriverFair ==
    /\ Init
    /\ [][NextDriver]_vars
    /\ \A t \in Callers : WF_vars(DriverInternal(t)) /\ WF_vars(CallerResumes(t))

Next ==
    \/ \E enabled \in BOOLEAN : set_polling(enabled)
    \/ UpdateDataDisabled
    \/ UpdateDataStart
    \/ UpdateDataResume
    \/ \E t \in Commanders, a \in OpenArgs : async_open_valve(t, a[1], a[2], a[3])
    \/ \E t \in Commanders : OpenValveResume(t)
    \/ \E t \in Commanders : async_close_valve(t)
    \/ \E t \in Commanders : CloseValveResume(t)
    \/ async_irrigation_ended
    \/ \E t \in Tasks : DriverCompletes(t)
    \/ Return
    \/ Tick

Spec == Init /\ [][Next]_vars

\* the coordinator with listeners registered at any quiet moment; the clock
\* stands still
NextPhase ==
    \/ \E listener \in Listeners : register_state_listener(listener)
    \/ \E enabled \in BOOLEAN : set_polling(enabled)
    \/ UpdateDataDisabled
    \/ UpdateDataStart
    \/ UpdateDataResume
    \/ \E t \in Commanders, a \in OpenArgs : async_open_valve(t, a[1], a[2], a[3])
    \/ \E t \in Commanders : OpenValveResume(t)
    \/ \E t \in Commanders : async_close_valve(t)
    \/ \E t \in Commanders : CloseValveResume(t)
    \/ async_irrigation_ended
    \/ \E t \in Tasks : DriverCompletes(t)
    \/ Return

SpecPhase == Init /\ [][NextPhase]_vars

\* two tasks issuing coordinator commands concurrently, and nothing else
NextCommands ==
    \/ \E t \in Callers, a \in OpenArgs : async_open_valve(t, a[1], a[2], a[3])
    \/ \E t \in Callers : OpenValveResume(t)
    \/ \E t \in Callers : async_close_valve(t)
    \/ \E t \in Callers : CloseValveResume(t)
    \/ \E t \in Callers : DriverCompletes(t)
    \/ Return

SpecCommands == Init /\ [][NextCommands]_vars

\* _parse_status applied to a buffer
parse_status ==
    /\ decoded = None
    /\ decoded' = Some(ParseStatus(status_bytes))
    /\ UNCHANGED <<driverVars, task, ret, coordVars, clock, status_bytes,
                   command_args, command_payload>>

ParseInit ==
    /\ DriverInit
    /\ CoordInit
    /\ status_bytes \in StatusBuffers
    /\ decoded = None
    /\ command_args = <<0, 0, 0>>
    /\ command_payload = None

NextParse == parse_status

SpecParse == ParseInit /\ [][NextParse]_vars

\* the payload open_valve builds for its arguments
open_valve_payload ==
    /\ command_payload = None
    /\ command_payload' =
          Some([op |-> "open_valve",
                bytes |-> OpenPayload(command_args[1], command_args[2],
                                      command_args[3])])
    /\ UNCHANGED <<driverVars, task, ret, coordVars, clock, status_bytes, decoded,
                   command_args>>

\* the payload close_valve passes to _verified_command
close_valve_payload ==
    /\ command_payload = None
    /\ command_payload' = Some([op |-> "close_valve", bytes |-> CMD_CLOSE_VALVE])
    /\ UNCHANGED <<driverVars, task, ret, coordVars, clock, status_bytes, decoded,
                   command_args>>

PayloadInit ==
    /\ DriverInit
    /\ CoordInit
    /\ status_bytes = <<>>
    /\ decoded = None
    /\ command_args \in ArgValues \X ArgValues \X ArgValues
    /\ command_payload = None

NextPayload ==
    \/ open_valve_payload
    \/ close_valve_payload

SpecPayload == PayloadInit /\ [][NextPayload]_vars

----------------------------------------------------------------------------
(* Properties of the driver, checked under SpecDriver *)

\* the states of a call between lock acquisition and release
InDriver(t) ==
    drv[t].pc \in {"connect", "wake", "read", "pre_read", "ctl_write", "rewake",
                   "vread", "vsleep", "disconnect", "backoff"}

\* every result the step-by-step driver returns is one the coordinator's view
\* of a driver call allows
ReturnedIsDriverResult ==
    \A t \in Tasks :
        drv[t].pc = "returned" =>
            drv[t].result \in DriverResults(drv[t].op, drv[t].expect_open)

\* the GATT calls of a connection that ran k write+read cycles
RECURSIVE VerifyCycles(_)
VerifyCycles(k) ==
    IF k = 0 THEN <<"wake", "read">>
    ELSE VerifyCycles(k - 1) \o <<"control", "wake", "read">>

\* C1. Verify bound: an open_valve / close_valve call in which no I/O step
\* failed and no read (pre-command or readback) reported the expected state
\* has made exactly COMMAND_VERIFY_ATTEMPTS control writes, each followed by a
\* wake and one status read, on its one and only connection, and returns
\* False, the "sent but unconfirmed" value.
VerifyBound ==
    \A t \in Tasks :
        ( /\ drv[t].pc = "returned"
          /\ drv[t].op \in {"open_valve", "close_valve"}
          /\ ~drv[t].io_failed
          /\ drv[t].result.kind # "status" )
        => /\ drv[t].result = RetFalse
           /\ drv[t].gatt = VerifyCycles(COMMAND_VERIFY_ATTEMPTS)
           /\ CountOf(drv[t].gatt, "control") = COMMAND_VERIFY_ATTEMPTS
           /\ drv[t].ctl_writes = COMMAND_VERIFY_ATTEMPTS
           /\ drv[t].connects = 1

VerifyBoundWitness ==
    \E t \in Tasks :
        /\ drv[t].pc = "returned"
        /\ drv[t].op = "open_valve"
        /\ ~drv[t].io_failed
        /\ drv[t].result = RetFalse

\* C2 (as claimed). Idempotent short-circuit: a call whose latest pre-command
\* read reported valve_open = expect_open made no control write on that
\* connection and returns exactly the status of that read.
IdempotentShortCircuit ==
    \A t \in Tasks :
        ( /\ drv[t].pc = "returned"
          /\ drv[t].pre_status # None
          /\ drv[t].pre_status[1].valve_open = drv[t].expect_open )
        => /\ CountOf(drv[t].gatt, "control") = 0
           /\ drv[t].result = RetStatus(drv[t].pre_status[1])

\* The part of C2 the code does keep: the callback of the connection whose
\* pre-command read matched ends with `return pre_status` and no control write.
ShortCircuitOnConnection ==
    \A t \in Tasks :
        ( /\ InDriver(t)
          /\ drv[t].connected
          /\ drv[t].pre_status # None
          /\ drv[t].pre_status[1].valve_open = drv[t].expect_open
          /\ "read" \in {drv[t].gatt[i] : i \in 1..Len(drv[t].gatt)} )
        => /\ drv[t].pc = "disconnect"
           /\ drv[t].pending = RetStatus(drv[t].pre_status[1])
           /\ drv[t].gatt = <<"wake", "read">>

\* C3. Retry bound: a call all of whose connection attempts raised a
\* transient error never invokes the callback, and when it ends it has made
\* exactly MAX_RETRIES connect attempts and raises ConnectionError.
RetryBound ==
    \A t \in Tasks :
        drv[t].connects > 0 /\ drv[t].connect_errors = drv[t].connects
        => /\ drv[t].op_calls = 0
           /\ drv[t].connects <= MAX_RETRIES
           /\ drv[t].pc = "returned"
                => /\ drv[t].connects = MAX_RETRIES
                   /\ drv[t].result = RaiseConnectionError

RetryBoundWitness ==
    \E t \in Tasks :
        /\ drv[t].pc = "returned"
        /\ drv[t].connect_errors = MAX_RETRIES
        /\ drv[t].result = RaiseConnectionError

\* C4. Backoff schedule: the k-th backoff sleep of a call lasts 2*k seconds
\* and follows failed attempt k; every attempt but the last made is followed
\* by one, and none follows attempt MAX_RETRIES.  So a call that succeeds on
\* attempt 2 has slept once (2 s) and one that fails all attempts twice (2 s, 4 s).
BackoffSchedule ==
    \A t \in Tasks :
        LET c == drv[t]
        IN /\ \A i \in 1..Len(c.sleeps) : c.sleeps[i] = 2 * i
           /\ c.pc = "backoff" => c.attempt < MAX_RETRIES /\ Len(c.sleeps) = c.attempt - 1
           /\ c.pc = "connect" => Len(c.sleeps) = c.attempt
           /\ c.pc \notin {"idle", "waiting", "connect", "backoff"}
                => Len(c.sleeps) = c.connects - 1
           /\ c.pc = "returned" /\ c.result = RaiseConnectionError
                => c.sleeps = <<2, 4>>
           /\ c.pc = "returned" /\ c.connects = 2 => c.sleeps = <<2>>

BackoffScheduleWitness ==
    \E t \in Tasks :
        /\ drv[t].pc = "returned"
        /\ drv[t].result.kind = "status"
        /\ drv[t].connects = 2
        /\ drv[t].sleeps = <<2>>

\* C5. At most one call in flight: at most one call is between lock
\* acquisition and release, it is the lock holder, and every other call that
\* has been issued waits in the lock's queue without a connection.
AtMostOneInFlight ==
    /\ \A t, u \in Tasks : InDriver(t) /\ InDriver(u) => t = u
    /\ \A t \in Tasks : InDriver(t) => lockHolder = t
    /\ \A t \in Tasks :
         drv[t].pc = "waiting"
         => /\ lockHolder \notin {t, NoTask}
            /\ \E i \in 1..Len(lockWaiters) : lockWaiters[i] = t
            /\ drv[t].gatt = <<>> /\ drv[t].connects = 0 /\ ~drv[t].connected

AtMostOneInFlightWitness ==
    \E t, u \in Tasks :
        /\ t # u
        /\ drv[t].pc = "ctl_write"
        /\ drv[u].pc = "waiting"

\* C17. Confirmation on iteration k: an open_valve / close_valve call with no
\* I/O failure whose pre-command read mismatched expect_open and whose
\* readback first matched on verify iteration k has made exactly k control
\* writes, each followed by a wake and a read, and returns the status of that
\* k-th readback (every earlier readback mismatched); every status open_valve
\* returns has valve_open true and every status close_valve returns has it false.
ConfirmedOnIterationK ==
    \A t \in Tasks :
        LET c == drv[t]
        IN /\ ( /\ c.pc = "returned"
                /\ c.op \in {"open_valve", "close_valve"}
                /\ ~c.io_failed
                /\ c.result.kind = "status"
                /\ c.pre_status # None
                /\ c.pre_status[1].valve_open # c.expect_open )
              => /\ c.vattempt \in 1..COMMAND_VERIFY_ATTEMPTS
                 /\ c.ctl_writes = c.vattempt
                 /\ CountOf(c.gatt, "control") = c.vattempt
                 /\ c.gatt = VerifyCycles(c.vattempt)
                 /\ c.post_status # None
                 /\ c.result = RetStatus(c.post_status[1])
           /\ c.pc = "vsleep" /\ ~c.io_failed
              => c.post_status # None /\ c.post_status[1].valve_open # c.expect_open
           /\ c.pc = "returned" /\ c.result.kind = "status" /\ c.op # "get_status"
              => c.result.status[1].valve_open = (c.op = "open_valve")

\* an open confirmed by the second readback
ConfirmedOnIterationKWitness ==
    \E t \in Tasks :
        /\ drv[t].pc = "returned"
        /\ drv[t].op = "open_valve"
        /\ ~drv[t].io_failed
        /\ drv[t].vattempt = 2
        /\ drv[t].ctl_writes = 2
        /\ drv[t].result.kind = "status"
        /\ drv[t].result.status[1].valve_open

NonTransientPropagates ==
    [][ \A t \in Tasks :
          ( /\ drv[t].pc = "disconnect"
            /\ drv[t].pending = RaiseOther
            /\ drv'[t] # drv[t] )
          => /\ drv'[t].pc = "returned"
             /\ drv'[t].result = RaiseOther
             /\ drv'[t].connects = drv[t].connects
             /\ drv'[t].sleeps = drv[t].sleeps ]_vars

\* C20 (as claimed). Liveness check before op: an attempt whose connect handed
\* back a client that is not connected does not invoke the callback and is
\* handled like a transient connect failure: it is followed by a backoff
\* sleep, or on the final attempt by ConnectionError.
LivenessCheckBeforeOp ==
    [][ \A t \in Tasks :
          /\ ( /\ drv[t].pc = "connect"
               /\ drv'[t].pc = "disconnect" )
             => /\ drv'[t].op_calls = drv[t].op_calls
                /\ drv'[t].pending = RaiseTransient
          /\ ( /\ drv[t].pc = "disconnect"
               /\ drv[t].gatt = <<>>
               /\ drv'[t] # drv[t] )
             => /\ drv'[t].op_calls = drv[t].op_calls
                /\ IF drv[t].attempt < MAX_RETRIES
                   THEN drv'[t].pc = "backoff"
                   ELSE /\ drv'[t].pc = "returned"
                        /\ drv'[t].result = RaiseConnectionError ]_vars

\* C21. Wake before read: on every connection a status read is issued only
\* after a wake write has completed on that connection, every status read is
\* immediately preceded by a wake write, and in the verify loop a wake write
\* is attempted between each control write and the status read that follows.
WakeBeforeRead ==
    \A t \in Tasks :
        LET c == drv[t]
            g == c.gatt
        IN /\ c.pc \in {"read", "pre_read", "vread"}
                => c.woken /\ g # <<>> /\ g[Len(g)] = "wake"
           /\ \A i \in 1..Len(g) :
                /\ g[i] = "read" => i > 1 /\ g[i - 1] = "wake" /\ g[1] = "wake"
                /\ g[i] = "control" /\ i < Len(g) => g[i + 1] = "wake"
           /\ (\E i \in 1..Len(g) : g[i] = "read") => c.woken

\* a verify iteration whose re-wake or readback failed and was swallowed
WakeBeforeReadWitness ==
    \E t \in Tasks :
        /\ drv[t].gatt = <<"wake", "read", "control", "wake", "read">>
        /\ drv[t].io_failed
        /\ drv[t].woken
        /\ drv[t].pc = "vsleep"

\* C22. Best-effort sub-steps in the verify loop: the re-wake write and the
\* verify read never end the callback with a transient error, so they never
\* cause a backoff or a further connect; the re-wake is followed by the status
\* read (unless it raised a non-transient error); a read that failed or
\* mismatched is followed by the sleep and then by the next iteration, or by
\* `return False` after iteration COMMAND_VERIFY_ATTEMPTS.
BestEffortSubSteps ==
    [][ \A t \in Tasks :
          LET c == drv[t]
              d == drv'[t]
          IN /\ c.pc \in {"rewake", "vread", "vsleep"} /\ d # c
                  => /\ d.pending # RaiseTransient
                     /\ d.pc \in {"vread", "vsleep", "ctl_write", "disconnect"}
                     /\ d.connects = c.connects /\ d.sleeps = c.sleeps
                     /\ d.vattempt \in {c.vattempt, c.vattempt + 1}
             /\ c.pc = "rewake" /\ d # c
                  => \/ d.pc = "vread"
                     \/ d.pc = "disconnect" /\ d.pending = RaiseOther
             /\ c.pc = "vread" /\ d # c
                  => \/ d.pc = "vsleep" /\ d.vattempt = c.vattempt
                     \/ /\ d.pc = "disconnect"
                        /\ \/ d.pending = RaiseOther
                           \/ /\ d.pending.kind = "status"
                              /\ d.pending.status[1].valve_open = c.expect_open
             /\ c.pc = "vsleep" /\ d # c
                  => IF c.vattempt < COMMAND_VERIFY_ATTEMPTS
                     THEN d.pc = "ctl_write" /\ d.vattempt = c.vattempt + 1
                     ELSE d.pc = "disconnect" /\ d.pending = RetFalse ]_vars

\* every readback of the call failed: it returns False on its first connection
BestEffortSubStepsWitness ==
    \E t \in Tasks :
        /\ drv[t].pc = "returned"
        /\ drv[t].result = RetFalse
        /\ drv[t].io_failed
        /\ drv[t].post_status = None
        /\ drv[t].connects = 1
        /\ drv[t].ctl_writes = COMMAND_VERIFY_ATTEMPTS

\* C29. Termination and lock release: when every I/O step and timed wait
\* returns or raises, every driver call that has started running terminates
\* (returns a status, returns unconfirmed, or raises); it has made at most
\* MAX_RETRIES connection attempts; it no longer holds the lock once it has
\* returned or raised; and a call waiting for the lock is eventually granted
\* it, from when on it is running.
TerminationAndLockRelease ==
    /\ \A t \in Callers : InDriver(t) ~> (drv[t].pc = "returned")
    /\ \A t \in Callers : (drv[t].pc = "waiting") ~> (lockHolder = t)
    /\ [](\A t \in Callers :
            /\ drv[t].connects <= MAX_RETRIES
            /\ drv[t].pc = "returned"
                 => /\ lockHolder # t
                    /\ drv[t].result.kind \in {"status", "false", "ConnectionError",
                                               "other"}
            /\ lockHolder = t <=> InDriver(t))

\* a call that used all MAX_RETRIES connection attempts has raised
\* ConnectionError, and the call that was waiting behind it holds the lock
TerminationAndLockReleaseWitness ==
    /\ drv["cmd1"].pc = "returned"
    /\ drv["cmd1"].connects = MAX_RETRIES
    /\ drv["cmd1"].result = RaiseConnectionError
    /\ lockHolder = "cmd2"
    /\ drv["cmd2"].pc = "connect"
    /\ lockWaiters = <<>>

\* C30 (as claimed). Result of a successful operation is not lost: once the
\* callback has returned a result (a status, or False) on some attempt, the
\* call's next step, the disconnect, returns that result to the caller, with
\* no backoff sleep, no further connection and no further invocation of the
\* callback, whether the disconnect completes or fails with a transient error.
ResultNotLost ==
    [][ \A t \in Tasks :
          ( /\ drv[t].pc = "disconnect"
            /\ drv[t].pending.kind \in {"status", "false"}
            /\ drv'[t] # drv[t]
            /\ ~(drv'[t].pc = "returned" /\ drv'[t].result = RaiseOther) )
          => /\ drv'[t].pc = "returned"
             /\ drv'[t].result = drv[t].pending
             /\ drv'[t].connects = drv[t].connects
             /\ drv'[t].op_calls = drv[t].op_calls
             /\ drv'[t].sleeps = drv[t].sleeps ]_vars

\* C31 (as claimed). A close_valve call returns a status without having
\* written to the control characteristic only if the buffer that status was
\* decoded from has at least 5 bytes and bit 0 of its first byte clear: a short
\* pre-command read never makes a close be skipped and reported as closed.
CloseSkippedOnlyOnWellFormedRead ==
    \A t \in Tasks :
        ( /\ drv[t].pc = "returned"
          /\ drv[t].op = "close_valve"
          /\ drv[t].result.kind = "status"
          /\ drv[t].ctl_writes = 0 )
        => /\ Len(drv[t].result.status[1].raw) >= 5
           /\ drv[t].result.status[1].raw[1] % 2 = 0

----------------------------------------------------------------------------
(* Properties of the coordinator, checked under Spec *)

\* C6. Failure-count semantics: consecutive_failures equals the number of
\* failed poll cycles since it was last zero; the device is reachable up to
\* MAX_CONSECUTIVE_FAILURES - 1 of them and unreachable from the
\* MAX_CONSECUTIVE_FAILURES-th on; a successful poll cycle leaves the counter
\* at 0 and the device reachable.
FailureCountSemantics ==
    /\ consecutive_failures = fail_streak
    /\ fail_streak <= MAX_CONSECUTIVE_FAILURES - 1 => reachable
    /\ fail_streak >= MAX_CONSECUTIVE_FAILURES => ~reachable
    /\ ret.op = "poll" /\ ret.how = "success"
         => consecutive_failures = 0 /\ reachable

FailureCountWitness ==
    /\ ret.op = "poll" /\ ret.how = "failure"
    /\ fail_streak = MAX_CONSECUTIVE_FAILURES
    /\ ~reachable

\* C7. Poll failure fallback: the step that resumes a poll cycle whose
\* get_status raised returns the cached status when there is one and raises
\* UpdateFailed when there is none; either way it adds exactly 1 to
\* consecutive_failures and leaves the cached status as it was.
PollFailureFallback ==
    [][ ( /\ drv["poll"].pc = "returned"
          /\ drv["poll"].result.kind # "status"
          /\ task'["poll"].pc = "idle" )
        => /\ ret'.op = "poll" /\ ret'.how = "failure"
           /\ ret'.outcome = IF last_known_status # None
                             THEN RetStatus(last_known_status[1])
                             ELSE Result("UpdateFailed", None)
           /\ consecutive_failures' = consecutive_failures + 1
           /\ last_known_status' = last_known_status ]_vars

PollFailureFallbackWitness ==
    /\ ret.op = "poll" /\ ret.how = "failure"
    /\ last_known_status # None
    /\ ret.outcome = RetStatus(last_known_status[1])
    /\ last_known_status[1].valve_open

\* C8 (as claimed). When a poll cycle, open_valve or close_valve finishes,
\* the operation phase is Idle or Error.
OperationEndsIdleOrError ==
    ret.op \in {"poll", "open", "close"} => operation_state \in {"Idle", "Error"}

\* C8 (amended). An enabled poll cycle finishes with the phase Idle; a
\* command finishes with the phase Confirmed when the driver call returned
\* (confirmed or unconfirmed) and Error when it raised; a disabled poll cycle
\* finishes with the phase it found.
OperationEndPhase ==
    /\ [] ( /\ ret.op = "poll" /\ ret.how \in {"success", "failure"}
                => operation_state = "Idle"
            /\ ret.op \in {"open", "close"} /\ ret.how = "done"
                => operation_state = "Confirmed"
            /\ ret.op \in {"open", "close"} /\ ret.how = "raised"
                => operation_state = "Error" )
    /\ [][ ret'.op = "poll" /\ ret'.how = "disabled"
           => operation_state' = operation_state ]_vars

OperationEndPhaseWitness ==
    /\ ret.op = "open" /\ ret.how = "done"
    /\ operation_state = "Confirmed"

\* C9. With polling disabled, the step that begins a poll cycle also ends it:
\* it makes no driver call, leaves the phase, consecutive_failures and
\* last_successful_poll unchanged, and returns the cached status if there is
\* one, otherwise the synthetic closed status, which it then caches.
DisabledPollIsNoOp ==
    [][ ( /\ ~polling_enabled
          /\ task["poll"].pc = "idle"
          /\ ret.op = "none"
          /\ ret'.op = "poll" \/ task'["poll"].pc = "awaiting" )
        => /\ ret'.op = "poll" /\ ret'.how = "disabled"
           /\ task'["poll"].pc = "idle"
           /\ UNCHANGED <<drv, lockHolder, lockWaiters, operation_state,
                          consecutive_failures, last_successful_poll>>
           /\ IF last_known_status # None
              THEN /\ ret'.outcome = RetStatus(last_known_status[1])
                   /\ last_known_status' = last_known_status
              ELSE /\ ret'.outcome =
                        RetStatus(GalconStatus(FALSE, FALSE, 0, 0, 0, <<>>, NoBattery))
                   /\ last_known_status' = ret'.outcome.status ]_vars

DisabledPollWitness ==
    /\ ret.op = "poll" /\ ret.how = "disabled"
    /\ ~polling_enabled
    /\ operation_state = "Opening"
    /\ last_known_status =
          Some(GalconStatus(FALSE, FALSE, 0, 0, 0, <<>>, NoBattery))

\* C10 (as claimed). polling_enabled starts false and changes only as the
\* direct result of a set_polling call made by the operator.
PollingOnlyByToggle ==
    /\ ~polling_enabled
    /\ [][ polling_enabled' # polling_enabled => ret'.op = "set_polling" ]_vars

\* C10 (amended). polling_enabled starts false and changes only as the direct
\* result of a set_polling call made by the operator, which sets it to the
\* value passed, or of a countdown-expiry notification, which sets it false.
PollingByToggleOrExpiry ==
    /\ ~polling_enabled
    /\ [][ polling_enabled' # polling_enabled
           => \/ /\ ret'.op = "set_polling"
                 /\ polling_enabled' = (ret'.how = "on")
              \/ /\ ret'.op = "irrigation_ended"
                 /\ ~polling_enabled' ]_vars

PollingByToggleOrExpiryWitness ==
    /\ ret.op = "irrigation_ended"
    /\ ~polling_enabled
    /\ update_interval = "24h"
    /\ last_successful_poll # None

\* C11. Countdown expiry: the countdown-expiry notification that arrives
\* while an irrigation session is in flight moves the in-flight start and
\* duration (recorded by the preceding open) to last_start and
\* last_duration_minutes, leaves no in-flight record, leaves polling disabled,
\* and caches and publishes a status that is closed, not manual, with
\* hours, minutes and seconds all 0.
CountdownExpiry ==
    [][ ( /\ ret'.op = "irrigation_ended"
          /\ current_irrigation_start # None )
        => /\ last_irrigation_start' = current_irrigation_start
           /\ last_irrigation_duration_min' = Some(current_irrigation_duration)
           /\ current_irrigation_start' = None
           /\ ~polling_enabled'
           /\ last_known_status' # None
           /\ ~last_known_status'[1].valve_open
           /\ ~last_known_status'[1].manual_open
           /\ last_known_status'[1].hours_remaining = 0
           /\ last_known_status'[1].minutes_remaining = 0
           /\ last_known_status'[1].seconds_remaining = 0
           /\ ret'.published = last_known_status' ]_vars

CountdownExpiryWitness ==
    /\ ret.op = "irrigation_ended" /\ ret.how = "session"
    /\ last_irrigation_start = Some(1)
    /\ last_irrigation_duration_min = Some(361)
    /\ current_irrigation_start = None
    /\ ~polling_enabled

\* C12. Coordinator open_valve(h,m,s) outcome: when the driver returned a
\* confirmed status the cached status becomes exactly that status; when it
\* returned unconfirmed the cached status becomes a synthesized one with
\* valve_open true and hours/minutes/seconds equal to the requested h/m/s;
\* either way the cached status is the one published.
OpenValveOutcome ==
    [][ \A t \in Commanders :
          ( /\ drv[t].pc = "returned"
            /\ task[t].op = "open"
            /\ drv[t].result.kind \in {"status", "false"}
            /\ task'[t].pc = "idle" )
          => /\ ret'.op = "open" /\ ret'.how = "done"
             /\ last_known_status' # None
             /\ ret'.published = last_known_status'
             /\ drv[t].result.kind = "status"
                  => last_known_status' = drv[t].result.status
             /\ drv[t].result.kind = "false"
                  => /\ last_known_status'[1].valve_open
                     /\ last_known_status'[1].hours_remaining = task[t].args[1]
                     /\ last_known_status'[1].minutes_remaining = task[t].args[2]
                     /\ last_known_status'[1].seconds_remaining = task[t].args[3] ]_vars

\* an unconfirmed open of 1:300:07 over a cache read from the device
OpenValveOutcomeWitness ==
    /\ ret.op = "open" /\ ret.how = "done"
    /\ ret.published = last_known_status
    /\ last_known_status =
          Some(GalconStatus(TRUE, TRUE, 1, 300, 7, <<0, 0, 0, 0, 0>>, NoBattery))

\* C13. Coordinator close_valve outcome: a close_valve whose driver call
\* returned has moved the in-flight irrigation record, if any, to
\* last_start / last_duration and left no in-flight record; the cached status
\* is the driver's confirmed status verbatim or, on an unconfirmed result, a
\* status that is closed, not manual, with zero hours/minutes/seconds and the
\* raw and battery of the status cached before.
CloseValveOutcome ==
    [][ \A t \in Commanders :
          ( /\ drv[t].pc = "returned"
            /\ task[t].op = "close"
            /\ drv[t].result.kind \in {"status", "false"}
            /\ task'[t].pc = "idle" )
          => /\ ret'.op = "close" /\ ret'.how = "done"
             /\ current_irrigation_start' = None
             /\ IF current_irrigation_start # None
                THEN /\ last_irrigation_start' = current_irrigation_start
                     /\ last_irrigation_duration_min' =
                            Some(current_irrigation_duration)
                ELSE UNCHANGED <<last_irrigation_start, last_irrigation_duration_min>>
             /\ drv[t].result.kind = "status"
                  => last_known_status' = drv[t].result.status
             /\ drv[t].result.kind = "false"
                  => last_known_status' =
                       Some(GalconStatus(FALSE, FALSE, 0, 0, 0,
                              IF last_known_status # None
                              THEN last_known_status[1].raw ELSE <<>>,
                              IF last_known_status # None
                              THEN last_known_status[1].battery_level
                              ELSE NoBattery)) ]_vars

\* an unconfirmed close that ends a session and keeps the battery byte read before
CloseValveOutcomeWitness ==
    /\ ret.op = "close" /\ ret.how = "done"
    /\ last_irrigation_start # None
    /\ last_irrigation_duration_min = Some(361)
    /\ current_irrigation_start = None
    /\ last_known_status =
          Some(GalconStatus(FALSE, FALSE, 0, 0, 0, <<1, 1, 0, 20, 0, 90>>, 90))

\* C14. Battery and raw are never fabricated: the cached status's
\* battery_level is none or the battery byte of a status decoded from a device
\* read, and its raw is empty or the bytes of a device read; every step that
\* changes the cached status either stores the status a driver call returned
\* or stores a synthesized status that carries the raw and battery of the
\* status cached immediately before (empty and none when nothing was cached),
\* and the three synthesizing steps (unconfirmed open, unconfirmed close,
\* countdown expiry) always do the latter.
NeverFabricated ==
    /\ [] ( last_known_status # None
            => /\ last_known_status[1].battery_level
                    \in {NoBattery} \cup {st.battery_level : st \in ReadableStatuses}
               /\ last_known_status[1].raw \in {<<>>} \cup ReadBuffers )
    /\ [][ LET carried ==
                 /\ last_known_status' # None
                 /\ last_known_status'[1].raw =
                       (IF last_known_status # None
                        THEN last_known_status[1].raw ELSE <<>>)
                 /\ last_known_status'[1].battery_level =
                       (IF last_known_status # None
                        THEN last_known_status[1].battery_level ELSE NoBattery)
               returned ==
                 \E t \in Tasks :
                    /\ drv[t].pc = "returned"
                    /\ drv[t].result.kind = "status"
                    /\ last_known_status' = drv[t].result.status
               synthesizing ==
                 \/ ret'.op = "irrigation_ended"
                 \/ \E t \in Tasks :
                       /\ drv[t].pc = "returned"
                       /\ drv[t].result.kind = "false"
                       /\ ret'.op \in {"open", "close"}
           IN /\ last_known_status' # last_known_status => returned \/ carried
              /\ synthesizing => carried ]_vars

\* a countdown expiry that carries the raw bytes and battery byte read before
NeverFabricatedWitness ==
    /\ ret.op = "irrigation_ended"
    /\ last_known_status =
          Some(GalconStatus(FALSE, FALSE, 0, 0, 0, <<1, 1, 0, 20, 0, 90>>, 90))

\* C15. Command failure is visible and side-effect free: when the driver call
\* inside open_valve or close_valve raises, the phase becomes Error, the same
\* exception reaches the caller, nothing is published, and the cached status,
\* the in-flight and last irrigation records, consecutive_failures and
\* polling_enabled are unchanged.
CommandFailureVisible ==
    [][ \A t \in Commanders :
          ( /\ drv[t].pc = "returned"
            /\ task[t].op \in {"open", "close"}
            /\ drv[t].result.kind \notin {"status", "false"}
            /\ task'[t].pc = "idle" )
          => /\ operation_state' = "Error"
             /\ ret'.op = task[t].op /\ ret'.how = "raised"
             /\ ret'.outcome = drv[t].result
             /\ ret'.published = None
             /\ UNCHANGED <<last_known_status, current_irrigation_start,
                            current_irrigation_duration, last_irrigation_start,
                            last_irrigation_duration_min, consecutive_failures,
                            polling_enabled>> ]_vars

\* a close that raised ConnectionError while an irrigation session was in flight
CommandFailureVisibleWitness ==
    /\ ret.op = "close" /\ ret.how = "raised"
    /\ ret.outcome = RaiseConnectionError
    /\ operation_state = "Error"
    /\ current_irrigation_start # None
    /\ last_known_status # None /\ last_known_status[1].valve_open

\* C24. Enabled poll cycle effects: with polling enabled the step that
\* begins a poll cycle sets the phase to Scanning and issues the driver's
\* get_status; the step that resumes it sets the phase to Idle on success and
\* on failure; on success consecutive_failures becomes 0, last_successful_poll
\* the current time, and the cached status exactly the status the driver
\* returned, which is also what the poll returns.
EnabledPollEffects ==
    [][ /\ ( /\ polling_enabled
             /\ task["poll"].pc = "idle"
             /\ task'["poll"].pc = "awaiting" )
           => /\ operation_state' = "Scanning"
              /\ drv["poll"].pc = "idle"
              /\ drv'["poll"].op = "get_status"
              /\ drv'["poll"].pc \in {"connect", "waiting"}
              /\ drv'["poll"].connects = 0
        /\ ( /\ task["poll"].pc = "awaiting"
             /\ task'["poll"].pc = "idle" )
           => /\ drv["poll"].pc = "returned"
              /\ operation_state' = "Idle"
              /\ ret'.op = "poll"
              /\ drv["poll"].result.kind = "status"
                   => /\ ret'.how = "success"
                      /\ consecutive_failures' = 0
                      /\ last_successful_poll' = Some(clock)
                      /\ last_known_status' = drv["poll"].result.status
                      /\ ret'.outcome = drv["poll"].result ]_vars

\* a successful poll at time 1 that read an open valve
EnabledPollEffectsWitness ==
    /\ ret.op = "poll" /\ ret.how = "success"
    /\ operation_state = "Idle"
    /\ consecutive_failures = 0
    /\ clock = 1
    /\ last_successful_poll = Some(1)
    /\ last_known_status = ret.outcome.status
    /\ last_known_status[1].valve_open

\* C27. Irrigation start record: every coordinator open_valve(h,m,s) that does
\* not raise, whether the driver returned a status (confirmed after a write or
\* short-circuited) or returned unconfirmed, sets the in-flight start to the
\* current time and the in-flight duration to h*60 + m + (1 if s != 0 else 0)
\* minutes, and leaves last_start and last_duration as they were.
IrrigationStartRecord ==
    [][ \A t \in Commanders :
          ( /\ drv[t].pc = "returned"
            /\ task[t].op = "open"
            /\ drv[t].result.kind \in {"status", "false"}
            /\ task'[t].pc = "idle" )
          => /\ ret'.op = "open" /\ ret'.how = "done"
             /\ current_irrigation_start' = Some(clock)
             /\ current_irrigation_duration' =
                   task[t].args[1] * 60 + task[t].args[2]
                   + (IF task[t].args[3] # 0 THEN 1 ELSE 0)
             /\ last_irrigation_start' = last_irrigation_start
             /\ last_irrigation_duration_min' = last_irrigation_duration_min ]_vars

\* an open_valve(1, 300, 7) done at time 1 after the session of an
\* open_valve(0, 0, 0) that started at time 0 was finalized
IrrigationStartRecordWitness ==
    /\ ret.op = "open" /\ ret.how = "done"
    /\ current_irrigation_start = Some(1)
    /\ current_irrigation_duration = 361
    /\ last_irrigation_start = Some(0)
    /\ last_irrigation_duration_min = Some(0)

\* C33 (as claimed). Phase under interleaving: from the step in which a
\* coordinator open_valve / close_valve sets the phase to Opening / Closing
\* until the step in which that call returns or raises, the phase is never
\* Idle or Scanning, whatever poll cycle, set_polling(false) or countdown
\* expiry runs in between.
PhaseHeldDuringCommand ==
    \A t \in Tasks :
        (task[t].pc = "awaiting" /\ task[t].op \in {"open", "close"})
            => operation_state \notin {"Idle", "Scanning"}

\* C35. Commands do not touch polling state: every step of a coordinator
\* open_valve or close_valve, the one that starts it and the one that ends it
\* by returning or raising, leaves consecutive_failures, last_successful_poll,
\* polling_enabled and the poll interval unchanged; a confirmed command does
\* not reset the failure counter, so reachable stays as it was.
CommandsKeepPollingState ==
    [][ (\E t \in Tasks :
            /\ task'[t] # task[t]
            /\ "open" \in {task[t].op, task'[t].op}
                  \/ "close" \in {task[t].op, task'[t].op})
          => /\ consecutive_failures' = consecutive_failures
             /\ last_successful_poll' = last_successful_poll
             /\ polling_enabled' = polling_enabled
             /\ update_interval' = update_interval
             /\ (consecutive_failures' < MAX_CONSECUTIVE_FAILURES)
                   = (consecutive_failures < MAX_CONSECUTIVE_FAILURES) ]_vars

\* an open_valve confirmed by a device read (20 minutes remaining, which no
\* synthesized status has) on a device that is still counted unreachable
CommandsKeepPollingStateWitness ==
    /\ ret.op = "open" /\ ret.how = "done"
    /\ last_known_status # None
    /\ last_known_status[1].valve_open
    /\ last_known_status[1].minutes_remaining = 20
    /\ consecutive_failures >= MAX_CONSECUTIVE_FAILURES

\* C36. Cache is never cleared: once the cached status is set it is never none
\* again; every operation that sets it (a poll cycle, enabled and successful
\* or disabled, a command that does not raise, a countdown expiry) leaves it
\* set; a poll cycle raises an update failure only while no status has ever
\* been cached, hence never after a disabled poll cycle.
CacheNeverCleared ==
    /\ [](/\ (ret.op = "poll" /\ ret.outcome.kind = "UpdateFailed")
               => (last_known_status = None /\ ret.how = "failure")
          /\ ( \/ ret.op = "poll" /\ ret.how \in {"disabled", "success"}
               \/ ret.op \in {"open", "close"} /\ ret.how = "done"
               \/ ret.op = "irrigation_ended" )
               => last_known_status # None)
    /\ [][ last_known_status # None => last_known_status' # None ]_vars

\* an enabled poll failed after a disabled one had cached the synthetic closed
\* status: it returned that status instead of raising
CacheNeverClearedWitness ==
    /\ ret.op = "poll" /\ ret.how = "failure"
    /\ ret.outcome = RetStatus(SyntheticClosed)
    /\ last_known_status = Some(SyntheticClosed)
    /\ last_successful_poll = None
    /\ consecutive_failures = 1

\* C37. Irrigation history integrity: last_start / last_duration change only
\* in the step that ends a close_valve without raising or in a countdown
\* expiry, and only when a session is in flight; they then become the start
\* and duration the in-flight record holds at that moment, and no session is
\* in flight afterwards; a close or expiry with no session in flight leaves
\* them unchanged; an open_valve issued while a session is in flight replaces
\* the in-flight record and leaves last_start / last_duration unchanged;
\* last_start and last_duration are set or unset together.
HistoryIntegrity ==
    /\ []((last_irrigation_start = None) = (last_irrigation_duration_min = None))
    /\ [][ /\ <<last_irrigation_start, last_irrigation_duration_min>>'
                # <<last_irrigation_start, last_irrigation_duration_min>>
              => /\ \/ ret'.op = "close" /\ ret'.how = "done"
                    \/ ret'.op = "irrigation_ended"
                 /\ ret.op = "none"
                 /\ current_irrigation_start # None
                 /\ last_irrigation_start' = current_irrigation_start
                 /\ last_irrigation_duration_min' = Some(current_irrigation_duration)
                 /\ current_irrigation_start' = None
           /\ ( /\ ret.op = "none"
                /\ ret'.op \in {"close", "irrigation_ended"}
                /\ current_irrigation_start = None )
              => UNCHANGED <<last_irrigation_start, last_irrigation_duration_min,
                             current_irrigation_start>>
           /\ (ret.op = "none" /\ ret'.op = "open" /\ ret'.how = "done")
              => /\ UNCHANGED <<last_irrigation_start, last_irrigation_duration_min>>
                 /\ current_irrigation_start' = Some(clock) ]_vars

\* a close_valve finalized the session of an open_valve(1, 300, 7) recorded at
\* time 1
HistoryIntegrityWitness ==
    /\ ret.op = "close" /\ ret.how = "done"
    /\ last_irrigation_start = Some(1)
    /\ last_irrigation_duration_min = Some(361)
    /\ current_irrigation_start = None

\* C38. Malformed read counts as a successful poll: an enabled poll cycle
\* whose get_status returned the status of a read of fewer than 5 bytes does
\* not raise and ends as a success: consecutive_failures becomes 0,
\* last_successful_poll the current time, and the cached status, whatever
\* battery level and open state it held, becomes the status that is closed,
\* not manual, with zero hours, minutes and seconds, whose raw is the short
\* buffer and whose battery is none; that status is what the poll returns.
MalformedReadIsSuccess ==
    /\ [](\A data \in ReadBuffers :
            Len(data) < 5
              => /\ RetStatus(ParseStatus(data)) \in DriverResults("get_status", FALSE)
                 /\ ParseStatus(data) =
                      GalconStatus(FALSE, FALSE, 0, 0, 0, data, NoBattery))
    /\ [][ ( /\ drv["poll"].pc = "returned"
             /\ drv["poll"].result.kind = "status"
             /\ Len(drv["poll"].result.status[1].raw) < 5
             /\ task'["poll"].pc = "idle" )
           => /\ ret'.op = "poll" /\ ret'.how = "success"
              /\ ret'.outcome = drv["poll"].result
              /\ consecutive_failures' = 0
              /\ last_successful_poll' = Some(clock)
              /\ last_known_status' =
                    Some(GalconStatus(FALSE, FALSE, 0, 0, 0,
                                      drv["poll"].result.status[1].raw, NoBattery)) ]_vars

\* a poll at time 1 that read the two bytes 1, 0: the cache holds the zeroed
\* status with those bytes as raw and no battery level
MalformedReadIsSuccessWitness ==
    /\ ret.op = "poll" /\ ret.how = "success"
    /\ last_known_status =
          Some(GalconStatus(FALSE, FALSE, 0, 0, 0, <<1, 0>>, NoBattery))
    /\ consecutive_failures = 0
    /\ last_successful_poll = Some(1)

----------------------------------------------------------------------------
(* Properties of the phase listeners, checked under SpecPhase *)

\* the phases a step assigns, in order, read off the operation it belongs to
PhasesAssigned ==
    CASE task["poll"].pc = "idle" /\ task'["poll"].pc = "awaiting" -> <<"Scanning">>
      [] \E t \in Tasks : /\ task[t].pc = "idle" /\ task'[t].pc = "awaiting"
                          /\ task'[t].op = "open" -> <<"Connecting", "Opening">>
      [] \E t \in Tasks : /\ task[t].pc = "idle" /\ task'[t].pc = "awaiting"
                          /\ task'[t].op = "close" -> <<"Connecting", "Closing">>
      [] ret.op = "none" /\ ret'.op = "poll" /\ ret'.how \in {"success", "failure"}
            -> <<"Idle">>
      [] ret.op = "none" /\ ret'.op \in {"open", "close"}
            -> IF ret'.how = "done" THEN <<"Confirmed">> ELSE <<"Error">>
      [] ret.op = "none" /\ ret'.op = "set_polling" /\ ret'.how = "off" -> <<"Idle">>
      [] ret.op = "none" /\ ret'.op = "irrigation_ended" -> <<"Idle">>
      [] OTHER -> <<>>

\* one call per registration, in registration order (position is the place in
\* _state_listeners), for each phase in turn
CallsFor(phases) ==
    [k \in 1..(Len(phases) * Len(state_listeners)) |->
        [listener |-> state_listeners[((k - 1) % Len(state_listeners)) + 1],
         position |-> ((k - 1) % Len(state_listeners)) + 1,
         operation_state |-> phases[((k - 1) \div Len(state_listeners)) + 1]]]

\* who was called and which phase each call could read
CallsMade(calls) ==
    [k \in 1..Len(calls) |-> [listener |-> calls[k].listener,
                              position |-> calls[k].position,
                              operation_state |-> calls[k].operation_state]]

\* C25. Phase listeners: every assignment of the phase, one that assigns the
\* phase it already has included, calls every registered listener exactly
\* once, in registration order, after the new phase is visible; a listener
\* registered n times is called n times per assignment; listeners are never
\* removed; a step that assigns no phase calls no listener.
PhaseListeners ==
    [][ /\ Len(state_listeners') >= Len(state_listeners)
        /\ SubSeq(state_listeners', 1, Len(state_listeners)) = state_listeners
        /\ CallsMade(notified') = CallsFor(PhasesAssigned)
        /\ PhasesAssigned # <<>>
             => operation_state' = PhasesAssigned[Len(PhasesAssigned)]
        /\ PhasesAssigned = <<>> => operation_state' = operation_state ]_vars

\* set_polling(False) called the listener registered twice once per
\* registration, first registration first
PhaseListenersWitness ==
    /\ ret.op = "set_polling" /\ ret.how = "off"
    /\ state_listeners = <<"status_sensor", "status_sensor">>
    /\ Len(notified) = 2
    /\ \A k \in 1..2 : /\ notified[k].listener = "status_sensor"
                        /\ notified[k].position = k
                        /\ notified[k].operation_state = "Idle"

\* C26 as stated. Ordering inside a successful coordinator open_valve: the
\* cached status is updated and the irrigation start recorded before the phase
\* becomes Confirmed, so a listener notified of Confirmed observes the cached
\* status and the in-flight record this command produced.
ConfirmedSeesThisCommand ==
    (ret.op = "open" /\ ret.how = "done")
        => \A k \in 1..Len(notified) :
              /\ notified[k].last_known_status = last_known_status
              /\ notified[k].current_irrigation_start = current_irrigation_start

\* C26. Ordering inside a successful coordinator open_valve: the phase becomes
\* Confirmed first; a listener notified of Confirmed observes the cached
\* status and the in-flight start as they were before the command returned;
\* the cached status and the irrigation start are updated after the listeners
\* ran, and the updated status is then published.
ConfirmedSeesPreviousCommand ==
    [][ (ret.op = "none" /\ ret'.op = "open" /\ ret'.how = "done")
          => /\ Len(notified') = Len(state_listeners)
             /\ \A k \in 1..Len(notified') :
                   /\ notified'[k].operation_state = "Confirmed"
                   /\ notified'[k].last_known_status = last_known_status
                   /\ notified'[k].current_irrigation_start = current_irrigation_start
             /\ operation_state' = "Confirmed"
             /\ \E t \in Tasks :
                   /\ task[t].op = "open" /\ drv[t].pc = "returned"
                   /\ last_known_status' =
                        Some(OpenedStatus(drv[t].result, task[t].args[1],
                                          task[t].args[2], task[t].args[3]))
             /\ current_irrigation_start' = Some(clock)
             /\ ret'.published = last_known_status' ]_vars

\* the listener was told of Confirmed by the first open_valve: it saw no cached
\* status and no irrigation in flight, and both exist once the command is done
ConfirmedSeesPreviousCommandWitness ==
    /\ ret.op = "open" /\ ret.how = "done"
    /\ Len(notified) >= 1
    /\ notified[1].operation_state = "Confirmed"
    /\ notified[1].last_known_status = None
    /\ notified[1].current_irrigation_start = None
    /\ last_known_status # None
    /\ current_irrigation_start # None

\* C28. set_polling effects: set_polling(false) sets polling_enabled false and
\* the poll timer interval to 24 hours, forces the phase to Idle and calls the
\* listeners, and leaves consecutive_failures unchanged; set_polling(true)
\* sets polling_enabled true, restores the base interval, resets
\* consecutive_failures to 0, so that reachable is true, changes no phase and
\* calls no listener.  Neither touches the cached status or the irrigation
\* records.
SetPollingEffects ==
    [][ (ret.op = "none" /\ ret'.op = "set_polling")
          => /\ ret'.how = "off"
                  => /\ ~polling_enabled'
                     /\ update_interval' = "24h"
                     /\ operation_state' = "Idle"
                     /\ Len(notified') = Len(state_listeners)
                     /\ \A k \in 1..Len(notified') :
                           notified'[k].operation_state = "Idle"
                     /\ consecutive_failures' = consecutive_failures
             /\ ret'.how = "on"
                  => /\ polling_enabled'
                     /\ update_interval' = "base"
                     /\ consecutive_failures' = 0
                     /\ consecutive_failures' < MAX_CONSECUTIVE_FAILURES
                     /\ last_successful_poll' = last_successful_poll
                     /\ operation_state' = operation_state
                     /\ notified' = <<>>
             /\ ret'.how \in {"on", "off"}
             /\ UNCHANGED <<last_known_status, last_irrigation_start,
                            last_irrigation_duration_min, current_irrigation_start,
                            current_irrigation_duration>> ]_vars

\* set_polling(false) on a device that is unreachable after
\* MAX_CONSECUTIVE_FAILURES failed polls: the listener was told of Idle and the
\* failure count stands
SetPollingEffectsWitness ==
    /\ ret.op = "set_polling" /\ ret.how = "off"
    /\ consecutive_failures = MAX_CONSECUTIVE_FAILURES
    /\ ~polling_enabled
    /\ update_interval = "24h"
    /\ Len(notified) = 1
    /\ notified[1].operation_state = "Idle"

----------------------------------------------------------------------------
(* Properties of concurrent commands, checked under SpecCommands *)

\* C34. Cache follows device order: with open_valve and close_valve commands
\* issued concurrently, a driver call that has left the lock is followed at
\* once by its own command's resumption, before the next holder of the lock
\* completes and before any other command updates the cache, so that the
\* cache is updated in the order in which the driver calls held the lock; a
\* command that does not raise leaves the cached valve_open equal to its
\* expected state; and when a command has finished without raising and no
\* other is in progress, the cached valve_open is the expected state of that
\* command, whose driver call was the last to hold the lock.
CacheFollowsDeviceOrder ==
    /\ [](\A t \in Tasks :
            /\ drv[t].pc = "returned"
                 => /\ lockHolder # t
                    /\ \A u \in Tasks \ {t} : drv[u].pc # "returned"
            /\ ( /\ ret.op \in {"open", "close"} /\ ret.how = "done"
                 /\ \A u \in Tasks : task[u].pc = "idle" )
               => /\ last_known_status # None
                  /\ last_known_status[1].valve_open = (ret.op = "open"))
    /\ [][ \A t \in Tasks :
            drv[t].pc = "returned"
              => /\ drv'[t].pc = "idle" /\ task'[t].pc = "idle"
                 /\ \A u \in Tasks \ {t} : drv'[u] = drv[u] /\ task'[u] = task[u]
                 /\ drv[t].result.kind \in {"status", "false"}
                      => /\ last_known_status' # None
                         /\ last_known_status'[1].valve_open = (task[t].op = "open")
                 /\ drv[t].result.kind \notin {"status", "false"}
                      => last_known_status' = last_known_status ]_vars

\* cmd1's open_valve has left the lock unconfirmed while cmd2's close_valve
\* was waiting for it: cmd2 holds the lock and the cache, still closed from an
\* earlier close, is cmd1's to update next
CacheFollowsDeviceOrderWitness ==
    /\ drv["cmd1"].pc = "returned" /\ drv["cmd1"].result = RetFalse
    /\ task["cmd1"].pc = "awaiting" /\ task["cmd1"].op = "open"
    /\ task["cmd2"].pc = "awaiting" /\ task["cmd2"].op = "close"
    /\ lockHolder = "cmd2" /\ drv["cmd2"].pc = "connect"
    /\ last_known_status # None
    /\ ~last_known_status[1].valve_open

----------------------------------------------------------------------------
(* Properties of the status codec and of the command payloads, checked     *)
(* under SpecParse and SpecPayload                                         *)

\* C16. Status decode is total and matches the byte layout: a buffer of fewer
\* than 5 bytes (the empty one included) decodes to closed, not manual,
\* 0:00:00, no battery; a buffer of 5 bytes or more decodes to valve_open =
\* bit 0 of byte 0, manual_open = bit 0 of byte 1, hours/minutes/seconds =
\* bytes 2/3/4 as they are, battery = byte 5 if there is one, else none; raw
\* is always the buffer itself; [1, 0, 1, 5, 0] decodes to open, not manual,
\* 1:05:00, no battery.
DecodeMatchesLayout ==
    decoded # None =>
        LET b == status_bytes
            st == decoded[1]
            odd(x) == \E k \in 0..127 : x = 2 * k + 1
        IN /\ st.raw = b
           /\ Len(b) < 5
                => /\ ~st.valve_open /\ ~st.manual_open
                   /\ st.hours_remaining = 0
                   /\ st.minutes_remaining = 0
                   /\ st.seconds_remaining = 0
                   /\ st.battery_level = NoBattery
           /\ Len(b) >= 5
                => /\ st.valve_open = odd(b[1])
                   /\ st.manual_open = odd(b[2])
                   /\ st.hours_remaining = b[3]
                   /\ st.minutes_remaining = b[4]
                   /\ st.seconds_remaining = b[5]
                   /\ st.battery_level = (IF Len(b) >= 6 THEN b[6] ELSE NoBattery)
           /\ b = <<1, 0, 1, 5, 0>>
                => st = GalconStatus(TRUE, FALSE, 1, 5, 0, b, NoBattery)

DecodeMatchesLayoutWitness ==
    /\ status_bytes = <<1, 0, 1, 5, 0>>
    /\ decoded = Some(GalconStatus(TRUE, FALSE, 1, 5, 0, <<1, 0, 1, 5, 0>>, NoBattery))

\* C23. Open payload construction: for the integers h, m, s given to
\* open_valve the control payload is 7 bytes; it is 00 01 00 00 00 00 00
\* exactly when h = m = s = 0 and otherwise
\* [0x00, 0x03, 0x00, h mod 256, m mod 256, s mod 256, 0x00]; close_valve uses
\* 01 00 00 00 00 00 00.
PayloadConstruction ==
    command_payload # None =>
        LET p == command_payload[1].bytes
            h == command_args[1]
            m == command_args[2]
            s == command_args[3]
            \* r is x mod 256: the byte that differs from x by a multiple of 256
            low8(x, r) == r \in 0..255 /\ \E k \in -2..2 : x = 256 * k + r
        IN /\ Len(p) = 7
           /\ \A i \in 1..7 : p[i] \in 0..255
           /\ command_payload[1].op = "close_valve" => p = <<1, 0, 0, 0, 0, 0, 0>>
           /\ command_payload[1].op = "open_valve"
                => /\ (p = <<0, 1, 0, 0, 0, 0, 0>>) <=> (h = 0 /\ m = 0 /\ s = 0)
                   /\ ~(h = 0 /\ m = 0 /\ s = 0)
                        => /\ p[1] = 0 /\ p[2] = 3 /\ p[3] = 0 /\ p[7] = 0
                           /\ low8(h, p[4]) /\ low8(m, p[5]) /\ low8(s, p[6])

\* open_valve(256, 300, -1): a timed open whose hours byte is 0
PayloadConstructionWitness ==
    /\ command_args = <<256, 300, -1>>
    /\ command_payload =
          Some([op |-> "open_valve", bytes |-> <<0, 3, 0, 0, 44, 255, 0>>])

====
